---- MODULE Spec2Model ----
(***************************************************************************)
(* A model of mcp-rest-api: a configuration of REST tools is validated and *)
(* registered, and each tool call is validated, bound to an HTTP request,  *)
(* sent through the transport and projected.                               *)
(*                                                                         *)
(* JavaScript strings are sequences of one-character strings, so that the  *)
(* regular expressions, encodeURIComponent and String() of the source are  *)
(* computed character by character.  JavaScript values are tagged records. *)
(***************************************************************************)
EXTENDS Integers, Sequences, FiniteSets, TLC

(***************************************************************************)
(* Bounds of the model.                                                    *)
(***************************************************************************)
\* number of tool calls that may be in flight together
MaxCalls == 2
\* number of start() calls and of stop() calls on the McpServer
MaxStarts == 2
MaxStops == 2

VARIABLES
    server,   \* the process: "init", "running" (the server serves calls) or "exited"
    serverConfig, \* McpServer.config: the configuration the process was started with
    tools,    \* ToolRegistry.tools: the Map from a tool's name to {definition, mcpTool}
    calls,    \* the calls: where each one is, its locals and what it has done
    reload,   \* the last registerToolsFromConfig on the running registry, if any
    lifecycle \* McpServer.isRunning, the start() and stop() calls, and the transport

vars == <<server, serverConfig, tools, calls, reload, lifecycle>>

CallIds == 1..MaxCalls

\* body applied to the value of e, which is computed once: LET v == e IN body(v)
With(e, body(_)) == CHOOSE r \in {body(v) : v \in {e}} : TRUE

(***************************************************************************)
(* Characters and strings.                                                 *)
(***************************************************************************)
LowerChars == {"a","b","c","d","e","f","g","h","i","j","k","l","m",
               "n","o","p","q","r","s","t","u","v","w","x","y","z"}
UpperChars == {"A","B","C","D","E","F","G","H","I","J","K","L","M",
               "N","O","P","Q","R","S","T","U","V","W","X","Y","Z"}
DigitChars == {"0","1","2","3","4","5","6","7","8","9"}
\* \s of the regular expressions (the model's strings hold no other blank)
SpaceChars == {" "}
\* [a-zA-Z_]
IdentStartChars == LowerChars \cup UpperChars \cup {"_"}
\* [a-zA-Z0-9_]
IdentChars == IdentStartChars \cup DigitChars

\* s.slice(from - 1, to) in 1-based inclusive positions; empty when from > to
Slice(s, from, to) == IF from > to THEN << >> ELSE SubSeq(s, from, to)

\* s.startsWith(p, at - 1)
StartsWithAt(s, p, at) ==
    /\ at + Len(p) - 1 <= Len(s)
    /\ \A k \in 1..Len(p) : s[at + k - 1] = p[k]

\* s.includes(c) for a single character c
Includes(s, c) == \E k \in 1..Len(s) : s[k] = c

\* the least position >= at that holds character c, or 0
IndexOfChar(s, c, at) ==
    IF \E k \in at..Len(s) : s[k] = c
    THEN CHOOSE k \in at..Len(s) : s[k] = c /\ \A j \in at..(k - 1) : s[j] # c
    ELSE 0

\* the first position >= at whose character is not in class, or Len(s) + 1
SkipClass(s, class, at) ==
    IF \E k \in at..Len(s) : s[k] \notin class
    THEN CHOOSE k \in at..Len(s) : s[k] \notin class /\ \A j \in at..(k - 1) : s[j] \in class
    ELSE IF at > Len(s) + 1 THEN at ELSE Len(s) + 1

\* s.indexOf(p) as a 1-based position, or 0
IndexOf(s, p) ==
    IF \E k \in 1..Len(s) : StartsWithAt(s, p, k)
    THEN CHOOSE k \in 1..Len(s) : StartsWithAt(s, p, k) /\ \A j \in 1..(k - 1) : ~StartsWithAt(s, p, j)
    ELSE 0

\* s.replace(p, r) with a string pattern: only the first occurrence is replaced
ReplaceFirst(s, p, r) ==
    With(IndexOf(s, p), LAMBDA k :
        IF k = 0 THEN s
        ELSE Slice(s, 1, k - 1) \o r \o Slice(s, k + Len(p), Len(s)))

\* s.trim()
Trim(s) ==
    With(SkipClass(s, SpaceChars, 1), LAMBDA a :
        IF a > Len(s) THEN << >>
        ELSE SubSeq(s, a, CHOOSE k \in a..Len(s) :
                 s[k] \notin SpaceChars /\ \A j \in (k + 1)..Len(s) : s[j] \in SpaceChars))

DigitValue(c) ==
    CASE c = "0" -> 0 [] c = "1" -> 1 [] c = "2" -> 2 [] c = "3" -> 3 [] c = "4" -> 4
      [] c = "5" -> 5 [] c = "6" -> 6 [] c = "7" -> 7 [] c = "8" -> 8 [] c = "9" -> 9

DigitChar(d) == <<"0","1","2","3","4","5","6","7","8","9">>[d + 1]

\* parseInt(s, 10) of a string of decimal digits
ParseDigits(s) ==
    LET F[i \in 0..Len(s)] == IF i = 0 THEN 0 ELSE 10 * F[i - 1] + DigitValue(s[i])
    IN  F[Len(s)]

RECURSIVE NatToString(_)
\* the decimal digits of a natural number
NatToString(n) ==
    IF n < 10 THEN <<DigitChar(n)>>
    ELSE NatToString(n \div 10) \o <<DigitChar(n % 10)>>

\* a digit string without its trailing zeros
StripTrailingZeros(s) ==
    IF \E k \in 1..Len(s) : s[k] # "0"
    THEN SubSeq(s, 1, CHOOSE k \in 1..Len(s) : s[k] # "0" /\ \A j \in (k + 1)..Len(s) : s[j] = "0")
    ELSE << >>

\* the letters in order, for String.prototype.toLowerCase
LowerLetters == <<"a","b","c","d","e","f","g","h","i","j","k","l","m","n","o","p","q","r","s","t","u","v","w","x","y","z">>
UpperLetters == <<"A","B","C","D","E","F","G","H","I","J","K","L","M","N","O","P","Q","R","S","T","U","V","W","X","Y","Z">>

\* c.toLowerCase() for one character
LowerOfChar(c) ==
    IF c \in UpperChars
    THEN LowerLetters[CHOOSE k \in 1..Len(UpperLetters) : UpperLetters[k] = c]
    ELSE c

\* s.toLowerCase()
toLowerCase(s) == [k \in 1..Len(s) |-> LowerOfChar(s[k])]

(***************************************************************************)
(* JavaScript values.  A number is n + 0.f (f the digits after the point,  *)
(* without trailing zeros); an object is the sequence of its own entries   *)
(* in insertion order, which is the order of Object.entries.               *)
(***************************************************************************)
JStr(s)  == [t |-> "string", s |-> s]
JNum(n)  == [t |-> "number", n |-> n, f |-> << >>]
JFrac(n, f) == [t |-> "number", n |-> n, f |-> f]
JBool(b) == [t |-> "boolean", b |-> b]
JNull    == [t |-> "null"]
JUndef   == [t |-> "undefined"]
JArr(a)  == [t |-> "array", a |-> a]
JObj(e)  == [t |-> "object", e |-> e]
\* a function value: what a plain object inherits from Object.prototype
JFunc    == [t |-> "function"]
\* one own entry of an object
KV(k, v) == [k |-> k, v |-> v]

\* export const OMIT_MARKER = Symbol('OMIT')
OMIT_MARKER == [t |-> "symbol", d |-> <<"O","M","I","T">>]

\* typeof v
TypeOf(v) ==
    CASE v.t = "string" -> "string"
      [] v.t = "number" -> "number"
      [] v.t = "boolean" -> "boolean"
      [] v.t = "undefined" -> "undefined"
      [] v.t = "symbol" -> "symbol"
      [] v.t = "function" -> "function"
      [] OTHER -> "object"

\* the names every plain object inherits from Object.prototype
ObjectPrototypeKeys ==
    { <<"c","o","n","s","t","r","u","c","t","o","r">>, <<"t","o","S","t","r","i","n","g">>, <<"v","a","l","u","e","O","f">>, <<"h","a","s","O","w","n","P","r","o","p","e","r","t","y">>,
      <<"i","s","P","r","o","t","o","t","y","p","e","O","f">>, <<"p","r","o","p","e","r","t","y","I","s","E","n","u","m","e","r","a","b","l","e">>, <<"t","o","L","o","c","a","l","e","S","t","r","i","n","g">> }

\* Object.keys(o)
Keys(o) == [i \in 1..Len(o.e) |-> o.e[i].k]

\* Object.prototype.hasOwnProperty.call(o, k)
HasOwn(o, k) == \E i \in 1..Len(o.e) : o.e[i].k = k

\* k in o, for a plain object o: own or inherited
In(k, o) == HasOwn(o, k) \/ k \in ObjectPrototypeKeys

\* o[k], for a plain object o
Get(o, k) ==
    IF HasOwn(o, k) THEN o.e[CHOOSE i \in 1..Len(o.e) : o.e[i].k = k].v
    ELSE IF k \in ObjectPrototypeKeys THEN JFunc
    ELSE JUndef

\* o[k] = v on a copy of o: an own key keeps its place, a new key goes last
Put(o, k, v) ==
    IF HasOwn(o, k)
    THEN JObj([i \in 1..Len(o.e) |-> IF o.e[i].k = k THEN KV(k, v) ELSE o.e[i]])
    ELSE JObj(Append(o.e, KV(k, v)))

\* { ...a, ...b }
Spread(a, b) ==
    LET F[i \in 0..Len(b.e)] ==
            IF i = 0 THEN a
            ELSE With(F[i - 1], LAMBDA acc : Put(acc, b.e[i].k, b.e[i].v))
    IN  F[Len(b.e)]

\* Number.isInteger(v)
IsInteger(v) == v.t = "number" /\ v.f = << >>

\* a <= b in the place of a < b
NumLess_Inclusive(a, b) == a.n < b.n \/ (a.n = b.n /\ a.f = << >>)

\* a < b for numbers a and whole b
NumLess(a, b) == a.n < b.n
\* a > b for numbers a and whole b
NumGreater(a, b) == a.n > b.n \/ (a.n = b.n /\ a.f # << >>)

\* parts.join(sep) for a sequence of strings
JoinStrings(parts, sep) ==
    LET F[i \in 0..Len(parts)] ==
            IF i = 0 THEN << >>
            ELSE IF i = 1 THEN parts[1]
            ELSE F[i - 1] \o sep \o parts[i]
    IN  F[Len(parts)]

RECURSIVE StringOf(_)
\* String(v)
StringOf(v) ==
    CASE v.t = "string" -> v.s
      [] v.t = "number" ->
            (IF v.n < 0 THEN <<"-">> \o NatToString(0 - v.n) ELSE NatToString(v.n))
            \o (IF v.f = << >> THEN << >> ELSE <<".">> \o v.f)
      [] v.t = "boolean" -> IF v.b THEN <<"t","r","u","e">> ELSE <<"f","a","l","s","e">>
      [] v.t = "null" -> <<"n","u","l","l">>
      [] v.t = "undefined" -> <<"u","n","d","e","f","i","n","e","d">>
      [] v.t = "symbol" -> <<"S","y","m","b","o","l","(">> \o v.d \o <<")">>
      [] v.t = "array" ->
            JoinStrings([i \in 1..Len(v.a) |->
                            IF v.a[i].t \in {"null", "undefined"} THEN << >>
                            ELSE StringOf(v.a[i])], <<",">>)
      [] v.t = "object" -> <<"[","o","b","j","e","c","t"," ","O","b","j","e","c","t","]">>
      [] v.t = "function" -> <<"f","u","n","c","t","i","o","n"," ","O","b","j","e","c","t","(",")"," ","{"," ","[","n","a","t","i","v","e"," ","c","o","d","e","]"," ","}">>

\* the characters encodeURIComponent leaves as they are
UriUnreserved ==
    LowerChars \cup UpperChars \cup DigitChars \cup {"-", "_", ".", "!", "~", "*", "'", "(", ")"}

\* the escape of one character outside UriUnreserved
UriEscape(c) ==
    CASE c = " " -> <<"%","2","0">> [] c = "{" -> <<"%","7","B">> [] c = "}" -> <<"%","7","D">> [] c = "/" -> <<"%","2","F">>
      [] c = "|" -> <<"%","7","C">> [] c = "?" -> <<"%","3","F">> [] c = "%" -> <<"%","2","5">> [] c = "=" -> <<"%","3","D">>
      [] c = "," -> <<"%","2","C">> [] c = ":" -> <<"%","3","A">> [] c = "[" -> <<"%","5","B">> [] c = "]" -> <<"%","5","D">>
      [] c = "&" -> <<"%","2","6">> [] c = "\"" -> <<"%","2","2">>

encodeURIComponent(s) ==
    LET F[i \in 0..Len(s)] ==
            IF i = 0 THEN << >>
            ELSE F[i - 1] \o (IF s[i] \in UriUnreserved THEN <<s[i]>> ELSE UriEscape(s[i]))
    IN  F[Len(s)]


(***************************************************************************)
(* ParameterBinder: the expression language of the templates.              *)
(***************************************************************************)
\* process.env, read when a binder is constructed
ProcessEnv == JObj(<<KV(<<"K","E","Y">>, JStr(<<"s","3">>)), KV(<<"N","E","S","T">>, JStr(<<"{","a","r","g","s",".","x","}">>))>>)

\* one match of
\*   \{(args|env)\.([a-zA-Z_][a-zA-Z0-9_]*)\??\s*(?:\|\|\s*([^}]+))?\}
\* starting at position at: [ok, next, full, type, key, hasDefault, default]
NoMatch == [ok |-> FALSE]
MatchExpressionAt(s, at) ==
    IF ~StartsWithAt(s, <<"{">>, at) THEN NoMatch
    ELSE
    LET isArgs == StartsWithAt(s, <<"a","r","g","s">>, at + 1)
        isEnv  == StartsWithAt(s, <<"e","n","v">>, at + 1)
        type   == IF isArgs THEN "args" ELSE "env"
        dot    == IF isArgs THEN at + 5 ELSE at + 4
        k1     == dot + 1
    IN  IF ~(isArgs \/ isEnv) \/ ~StartsWithAt(s, <<".">>, dot) THEN NoMatch
        ELSE IF k1 > Len(s) \/ s[k1] \notin IdentStartChars THEN NoMatch
        ELSE
        With(SkipClass(s, IdentChars, k1), LAMBDA k2 :
        With(SkipClass(s, SpaceChars, IF StartsWithAt(s, <<"?">>, k2) THEN k2 + 1 ELSE k2), LAMBDA w :
            IF StartsWithAt(s, <<"}">>, w)
            THEN [ok |-> TRUE, next |-> w + 1, full |-> SubSeq(s, at, w), type |-> type,
                  key |-> SubSeq(s, k1, k2 - 1), hasDefault |-> FALSE, default |-> << >>]
            ELSE IF ~StartsWithAt(s, <<"|","|">>, w) THEN NoMatch
            ELSE
            With(IndexOfChar(s, "}", w + 2), LAMBDA close :
            With(SkipClass(s, SpaceChars, w + 2), LAMBDA d2 :
                IF close = 0 \/ close = w + 2 THEN NoMatch
                ELSE [ok |-> TRUE, next |-> close + 1, full |-> SubSeq(s, at, close),
                      type |-> type, key |-> SubSeq(s, k1, k2 - 1), hasDefault |-> TRUE,
                      default |-> IF d2 < close THEN SubSeq(s, d2, close - 1)
                                  ELSE SubSeq(s, close - 1, close - 1)]))))

\* /^\d+$/.test(s)
IsDigits(s) == s # << >> /\ \A k \in 1..Len(s) : s[k] \in DigitChars

\* /^\d+\.\d+$/.test(s)
IsDecimal(s) ==
    With(IndexOfChar(s, ".", 1), LAMBDA p :
        p # 0 /\ IsDigits(Slice(s, 1, p - 1)) /\ IsDigits(Slice(s, p + 1, Len(s))))

DoubleQuote == <<"\"">>

\* ParameterBinder.parseDefaultValue
parseDefaultValue(defaultValue) ==
    With(Trim(defaultValue), LAMBDA trimmed :
    With(IndexOfChar(trimmed, ".", 1), LAMBDA p :
        IF \/ (StartsWithAt(trimmed, DoubleQuote, 1) /\ StartsWithAt(trimmed, DoubleQuote, Len(trimmed)))
           \/ (StartsWithAt(trimmed, <<"'">>, 1) /\ StartsWithAt(trimmed, <<"'">>, Len(trimmed)))
        THEN JStr(Slice(trimmed, 2, Len(trimmed) - 1))
        ELSE IF IsDigits(trimmed) THEN JNum(ParseDigits(trimmed))
        ELSE IF IsDecimal(trimmed)
             THEN JFrac(ParseDigits(Slice(trimmed, 1, p - 1)),
                        StripTrailingZeros(Slice(trimmed, p + 1, Len(trimmed))))
        ELSE IF trimmed = <<"t","r","u","e">> THEN JBool(TRUE)
        ELSE IF trimmed = <<"f","a","l","s","e">> THEN JBool(FALSE)
        ELSE IF trimmed = <<"n","u","l","l">> THEN JNull
        ELSE IF trimmed = <<"u","n","d","e","f","i","n","e","d">> THEN JUndef
        ELSE JStr(trimmed)))

\* a binder whose context is one object shared by the calls in flight: the
\* arguments of the call whose request is out stay in it
NewParameterBinder_Shared(args, env) ==
    [args |-> IF \E c \in CallIds : calls[c].pc = "sent"
              THEN calls[CHOOSE c \in CallIds : calls[c].pc = "sent"].args
              ELSE args,
     env |-> env]

\* new ParameterBinder(args, env = process.env): the binder's context
NewParameterBinder(args, env) == [args |-> args, env |-> env]

\* ParameterBinder.parseExpression: the value of one matched expression
parseExpression(binder, match) ==
    LET isOptional == Includes(match.full, "?")
    IN  With(IF match.type = "args" THEN Get(binder.args, match.key)
             ELSE Get(binder.env, match.key), LAMBDA found :
            IF found # JUndef THEN found
            ELSE IF match.hasDefault THEN parseDefaultValue(match.default)
            ELSE IF isOptional THEN OMIT_MARKER
            ELSE JUndef)

RECURSIVE ReplaceExpressions(_, _, _)
\* value.replace(EXPRESSION_REGEX, match => String(parseExpression(match).value))
\* from position at on
ReplaceExpressions(binder, s, at) ==
    IF at > Len(s) THEN << >>
    ELSE With(MatchExpressionAt(s, at), LAMBDA m :
             IF m.ok
             THEN With(parseExpression(binder, m), LAMBDA value :
                      StringOf(value) \o ReplaceExpressions(binder, s, m.next))
             ELSE <<s[at]>> \o ReplaceExpressions(binder, s, at + 1))

\* resolveString without the whole-string case: every expression is replaced
\* by its string form
resolveString_Stringified(binder, s) == JStr(ReplaceExpressions(binder, s, 1))

\* resolveString that resolves the text it has produced once more
resolveString_Twice(binder, s) ==
    With(MatchExpressionAt(s, 1), LAMBDA single :
        IF single.ok /\ single.next = Len(s) + 1
        THEN With(parseExpression(binder, single), LAMBDA value :
                 IF value.t = "string" THEN JStr(ReplaceExpressions(binder, value.s, 1))
                 ELSE value)
        ELSE JStr(ReplaceExpressions(binder, ReplaceExpressions(binder, s, 1), 1)))

\* ParameterBinder.resolveString
resolveString(binder, s) ==
    With(MatchExpressionAt(s, 1), LAMBDA single :
        IF single.ok /\ single.next = Len(s) + 1
        THEN parseExpression(binder, single)
        ELSE JStr(ReplaceExpressions(binder, s, 1)))

RECURSIVE AddResolvedEntries(_, _, _, _)
RECURSIVE resolve(_, _)
\* ParameterBinder.resolve
resolve(binder, value) ==
    CASE value.t = "string" -> resolveString(binder, value.s)
      [] value.t = "array" -> JArr([i \in 1..Len(value.a) |-> resolve(binder, value.a[i])])
      [] value.t = "object" -> AddResolvedEntries(binder, value.e, 1, JObj(<< >>))
      [] OTHER -> value

\* the loop of resolve with "resolvedVal != null" as its test: entries that
\* resolve to null or undefined are left out as well
AddResolvedEntries_DropsNullish(binder, entries, i, resolved) ==
    IF i > Len(entries) THEN resolved
    ELSE With(resolve(binder, entries[i].v), LAMBDA resolvedVal :
         With(IF resolvedVal \notin {OMIT_MARKER, JNull, JUndef}
              THEN Put(resolved, entries[i].k, resolvedVal)
              ELSE resolved, LAMBDA next :
             AddResolvedEntries(binder, entries, i + 1, next)))

\* the loop of resolve over Object.entries(value), from entry i on: an entry
\* whose value resolves to OMIT_MARKER is left out
AddResolvedEntries(binder, entries, i, resolved) ==
    IF i > Len(entries) THEN resolved
    ELSE With(resolve(binder, entries[i].v), LAMBDA resolvedVal :
         With(IF resolvedVal # OMIT_MARKER
              THEN Put(resolved, entries[i].k, resolvedVal)
              ELSE resolved, LAMBDA next :
             AddResolvedEntries(binder, entries, i + 1, next)))

(***************************************************************************)
(* Path placeholders.                                                      *)
(***************************************************************************)
RECURSIVE MatchPlaceholders(_, _)
\* s.match(/\{([^}]+)\}/g) from position at on: the matched tokens, braces
\* included, in order (<< >> where JavaScript gives null)
MatchPlaceholders(s, at) ==
    With(IndexOfChar(s, "{", at), LAMBDA open :
    With(IF open = 0 THEN 0 ELSE IndexOfChar(s, "}", open + 1), LAMBDA close :
        IF open = 0 \/ close = 0 THEN << >>
        ELSE IF close = open + 1 THEN MatchPlaceholders(s, close + 1)
        ELSE <<SubSeq(s, open, close)>> \o MatchPlaceholders(s, close + 1)))

(***************************************************************************)
(* Schemas and the validation of a call's arguments.                       *)
(***************************************************************************)
\* a JsonSchema / JsonSchemaProperty with only its type set; a field that
\* is JUndef is absent
SchemaOf(type) ==
    [type |-> type, properties |-> JUndef, required |-> JUndef,
     additionalProperties |-> JUndef, items |-> JUndef, enum |-> JUndef,
     minimum |-> JUndef, maximum |-> JUndef, minLength |-> JUndef,
     maxLength |-> JUndef, pattern |-> JUndef]

\* the truthiness of a value
Truthy(v) ==
    CASE v.t \in {"undefined", "null"} -> FALSE
      [] v.t = "boolean" -> v.b
      [] v.t = "number" -> ~(v.n = 0 /\ v.f = << >>)
      [] v.t = "string" -> v.s # << >>
      [] OTHER -> TRUE

\* typeof v as text
TypeOfText(v) ==
    CASE TypeOf(v) = "string" -> <<"s","t","r","i","n","g">>
      [] TypeOf(v) = "number" -> <<"n","u","m","b","e","r">>
      [] TypeOf(v) = "boolean" -> <<"b","o","o","l","e","a","n">>
      [] TypeOf(v) = "undefined" -> <<"u","n","d","e","f","i","n","e","d">>
      [] TypeOf(v) = "symbol" -> <<"s","y","m","b","o","l">>
      [] TypeOf(v) = "function" -> <<"f","u","n","c","t","i","o","n">>
      [] OTHER -> <<"o","b","j","e","c","t">>

\* a schema type as text
TypeNameText(type) ==
    CASE type = "string" -> <<"s","t","r","i","n","g">> [] type = "number" -> <<"n","u","m","b","e","r">>
      [] type = "integer" -> <<"i","n","t","e","g","e","r">> [] type = "boolean" -> <<"b","o","o","l","e","a","n">>
      [] type = "array" -> <<"a","r","r","a","y">> [] type = "object" -> <<"o","b","j","e","c","t">>
      [] type = "null" -> <<"n","u","l","l">>

\* the patterns of the model's schemas
PatternLower == <<"^","[","a","-","z","]","+","$">>
PatternDigits == <<"^","[","0","-","9","]","+","$">>

\* new RegExp(pattern).test(s), for the patterns above
RegExpTest(pattern, s) ==
    CASE pattern = PatternLower -> s # << >> /\ \A k \in 1..Len(s) : s[k] \in LowerChars
      [] pattern = PatternDigits -> IsDigits(s)

\* array.includes(v)
ArrayIncludes(arr, v) == \E i \in 1..Len(arr.a) : arr.a[i] = v

\* array.join(', ')
JoinValues(arr) ==
    With([i \in 1..Len(arr.a) |->
             IF arr.a[i].t \in {"null", "undefined"} THEN << >>
             ELSE StringOf(arr.a[i])], LAMBDA parts : JoinStrings(parts, <<","," ">>))

\* the first element of a sequence of error lists that is not empty
FirstError(errs) ==
    LET F[i \in 0..Len(errs)] ==
            IF i = 0 THEN << >>
            ELSE With(F[i - 1], LAMBDA earlier :
                     IF earlier # << >> THEN earlier ELSE errs[i])
    IN  F[Len(errs)]

RECURSIVE validateValueType(_, _, _)
\* ToolRegistry.validateValueType: << >> for null, <<message>> otherwise
validateValueType(value, schema, fieldName) ==
    IF value.t \in {"undefined", "null"} THEN << >>
    ELSE
    CASE schema.type = "string" ->
            IF TypeOf(value) # "string"
            THEN <<fieldName \o <<" ","m","u","s","t"," ","b","e"," ","a"," ","s","t","r","i","n","g",","," ","g","o","t"," ">> \o TypeOfText(value)>>
            ELSE IF Truthy(schema.minLength) /\ Len(value.s) < schema.minLength.n
            THEN <<fieldName \o <<" ","m","u","s","t"," ","b","e"," ","a","t"," ","l","e","a","s","t"," ">> \o StringOf(schema.minLength) \o <<" ","c","h","a","r","a","c","t","e","r","s"," ","l","o","n","g">>>>
            ELSE IF Truthy(schema.maxLength) /\ NumGreater(JNum(Len(value.s)), schema.maxLength)
            THEN <<fieldName \o <<" ","m","u","s","t"," ","b","e"," ","a","t"," ","m","o","s","t"," ">> \o StringOf(schema.maxLength) \o <<" ","c","h","a","r","a","c","t","e","r","s"," ","l","o","n","g">>>>
            ELSE IF Truthy(schema.pattern) /\ ~RegExpTest(schema.pattern.s, value.s)
            THEN <<fieldName \o <<" ","d","o","e","s"," ","n","o","t"," ","m","a","t","c","h"," ","r","e","q","u","i","r","e","d"," ","p","a","t","t","e","r","n">>>>
            ELSE IF Truthy(schema.enum) /\ ~ArrayIncludes(schema.enum, value)
            THEN <<fieldName \o <<" ","m","u","s","t"," ","b","e"," ","o","n","e"," ","o","f",":"," ">> \o JoinValues(schema.enum)>>
            ELSE << >>
      [] schema.type \in {"number", "integer"} ->
            LET isValidNumber == TypeOf(value) = "number"
                isInteger == schema.type = "integer" /\ IsInteger(value)
            IN  IF ~isValidNumber \/ (schema.type = "integer" /\ ~isInteger)
                THEN <<fieldName \o <<" ","m","u","s","t"," ","b","e"," ","a"," ">> \o TypeNameText(schema.type)>>
                ELSE IF schema.minimum # JUndef /\ NumLess(value, schema.minimum)
                THEN <<fieldName \o <<" ","m","u","s","t"," ","b","e"," ","a","t"," ","l","e","a","s","t"," ">> \o StringOf(schema.minimum)>>
                ELSE IF schema.maximum # JUndef /\ NumGreater(value, schema.maximum)
                THEN <<fieldName \o <<" ","m","u","s","t"," ","b","e"," ","a","t"," ","m","o","s","t"," ">> \o StringOf(schema.maximum)>>
                ELSE IF Truthy(schema.enum) /\ ~ArrayIncludes(schema.enum, value)
                THEN <<fieldName \o <<" ","m","u","s","t"," ","b","e"," ","o","n","e"," ","o","f",":"," ">> \o JoinValues(schema.enum)>>
                ELSE << >>
      [] schema.type = "boolean" ->
            IF TypeOf(value) # "boolean"
            THEN <<fieldName \o <<" ","m","u","s","t"," ","b","e"," ","a"," ","b","o","o","l","e","a","n",","," ","g","o","t"," ">> \o TypeOfText(value)>>
            ELSE << >>
      [] schema.type = "array" ->
            IF value.t # "array"
            THEN <<fieldName \o <<" ","m","u","s","t"," ","b","e"," ","a","n"," ","a","r","r","a","y",","," ","g","o","t"," ">> \o TypeOfText(value)>>
            ELSE IF schema.items # JUndef
            THEN With([i \in 1..Len(value.a) |->
                    validateValueType(value.a[i], schema.items,
                        fieldName \o <<"[">> \o NatToString(i - 1) \o <<"]">>)], FirstError)
            ELSE << >>
      [] schema.type = "object" ->
            IF TypeOf(value) # "object" \/ value.t = "array"
            THEN <<fieldName \o <<" ","m","u","s","t"," ","b","e"," ","a","n"," ","o","b","j","e","c","t",","," ","g","o","t"," ">> \o TypeOfText(value)>>
            ELSE IF schema.properties # JUndef
            THEN With([i \in 1..Len(value.e) |->
                    With(Get(schema.properties, value.e[i].k), LAMBDA propSchema :
                        IF propSchema \in {JUndef, JFunc} THEN << >>
                        ELSE validateValueType(value.e[i].v, propSchema,
                                 fieldName \o <<".">> \o value.e[i].k))], FirstError)
            ELSE << >>
      [] OTHER -> << >>

\* the concatenation of a sequence of sequences
Flatten(ss) ==
    LET F[i \in 0..Len(ss)] == IF i = 0 THEN << >> ELSE F[i - 1] \o ss[i]
    IN  F[Len(ss)]

\* validateArgumentTypes that returns at the first argument in error
validateArgumentTypes_FailFast(toolDef, args) ==
    IF toolDef.inputSchema.properties = JUndef THEN << >>
    ELSE With([i \in 1..Len(args.e) |->
            With(Get(toolDef.inputSchema.properties, args.e[i].k), LAMBDA propSchema :
                IF propSchema \in {JUndef, JFunc} THEN << >>
                ELSE validateValueType(args.e[i].v, propSchema, args.e[i].k))], FirstError)

\* ToolRegistry.validateArgumentTypes
validateArgumentTypes(toolDef, args) ==
    IF toolDef.inputSchema.properties = JUndef THEN << >>
    ELSE With([i \in 1..Len(args.e) |->
            With(Get(toolDef.inputSchema.properties, args.e[i].k), LAMBDA propSchema :
                IF propSchema \in {JUndef, JFunc} THEN << >>
                ELSE validateValueType(args.e[i].v, propSchema, args.e[i].k))], Flatten)

\* RequestHandler.validateRequiredArguments
validateRequiredArguments(tool, args) ==
    IF tool.inputSchema.required = JUndef THEN << >>
    ELSE With([i \in 1..Len(tool.inputSchema.required.a) |->
            LET requiredField == tool.inputSchema.required.a[i].s
            IN  IF \/ ~In(requiredField, args)
                   \/ Get(args, requiredField) = JUndef
                   \/ Get(args, requiredField) = JNull
                THEN <<<<"M","i","s","s","i","n","g"," ","r","e","q","u","i","r","e","d"," ","a","r","g","u","m","e","n","t",":"," ">> \o requiredField>>
                ELSE << >>], Flatten)

(***************************************************************************)
(* RequestHandler: building the request and processing its outcome.        *)
(***************************************************************************)
\* tool.method.toLowerCase()
MethodLower(method) ==
    CASE method = "GET" -> "get" [] method = "POST" -> "post" [] method = "PUT" -> "put"
      [] method = "PATCH" -> "patch" [] method = "DELETE" -> "delete"

\* requestConfig.method.toUpperCase()
MethodUpper(method) ==
    CASE method = "get" -> <<"G","E","T">> [] method = "post" -> <<"P","O","S","T">> [] method = "put" -> <<"P","U","T">>
      [] method = "patch" -> <<"P","A","T","C","H">> [] method = "delete" -> <<"D","E","L","E","T","E">>

\* the loop of buildUrl over Object.entries(resolvedPathParams)
SubstitutePathParams(path, entries) ==
    LET F[i \in 0..Len(entries)] ==
            IF i = 0 THEN path
            ELSE With(F[i - 1], LAMBDA url :
                     IF entries[i].v # JUndef /\ entries[i].v # JNull
                     THEN With(encodeURIComponent(StringOf(entries[i].v)), LAMBDA encoded :
                              ReplaceFirst(url, <<"{">> \o entries[i].k \o <<"}">>, encoded))
                     ELSE url)
    IN  F[Len(entries)]

\* a thrown ParameterBindingError
ParameterBindingError(message, parameter) ==
    [name |-> "ParameterBindingError", message |-> message, parameter |-> parameter]

\* buildUrl without the check for unresolved placeholders
buildUrl_Unchecked(tool, binder) ==
    With(IF Truthy(tool.pathParams)
         THEN With(resolve(binder, tool.pathParams), LAMBDA resolvedPathParams :
                  SubstitutePathParams(tool.path, resolvedPathParams.e))
         ELSE tool.path, LAMBDA url : [ok |-> TRUE, url |-> url])

\* RequestHandler.buildUrl: [ok, url] or [ok, error]
buildUrl(tool, binder) ==
    With(IF Truthy(tool.pathParams)
         THEN With(resolve(binder, tool.pathParams), LAMBDA resolvedPathParams :
                  SubstitutePathParams(tool.path, resolvedPathParams.e))
         ELSE tool.path, LAMBDA url :
    With(MatchPlaceholders(url, 1), LAMBDA unresolvedPlaceholders :
        IF unresolvedPlaceholders # << >>
        THEN [ok |-> FALSE,
              error |-> ParameterBindingError(
                  <<"U","n","r","e","s","o","l","v","e","d"," ","p","a","t","h"," ","p","a","r","a","m","e","t","e","r","s",":"," ">> \o JoinStrings(unresolvedPlaceholders, <<","," ">>),
                  unresolvedPlaceholders[1])]
        ELSE [ok |-> TRUE, url |-> url]))

\* cleanParams with "if (value)" as its test: 0 and false are dropped too
cleanParams_Truthy(params) ==
    JObj(SelectSeq(params.e, LAMBDA entry : Truthy(entry.v)))

\* RequestHandler.cleanParams
cleanParams(params) ==
    LET F[i \in 0..Len(params.e)] ==
            IF i = 0 THEN JObj(<< >>)
            ELSE With(F[i - 1], LAMBDA cleaned :
                     LET value == params.e[i].v
                     IN  IF value # JUndef /\ value # JNull /\ value # JStr(<< >>)
                         THEN Put(cleaned, params.e[i].k, value)
                         ELSE cleaned)
    IN  F[Len(params.e)]

\* buildRequestConfig that keeps the built url in the tool's path
buildRequestConfig_Mutating(tool, binder) ==
    With(buildUrl(tool, binder), LAMBDA u :
        IF ~u.ok THEN [ok |-> FALSE, error |-> u.error, tool |-> tool]
        ELSE [ok |-> TRUE,
              config |->
                [method  |-> MethodLower(tool.method),
                 url     |-> u.url,
                 headers |-> IF Truthy(tool.headers)
                             THEN With(resolve(binder, tool.headers), LAMBDA resolvedHeaders :
                                      Spread(JObj(<< >>), resolvedHeaders))
                             ELSE JObj(<< >>),
                 params  |-> IF Truthy(tool.queryParams)
                             THEN With(resolve(binder, tool.queryParams), cleanParams)
                             ELSE JObj(<< >>),
                 data    |-> IF tool.method \in {"POST", "PUT", "PATCH"} /\ Truthy(tool.bodyTemplate)
                             THEN resolve(binder, tool.bodyTemplate)
                             ELSE JUndef],
              tool |-> [tool EXCEPT !.path = u.url]])

\* buildRequestConfig without the test of the method: a configured
\* bodyTemplate is resolved into the body of every request
buildRequestConfig_BodyAlways(tool, binder) ==
    With(buildUrl(tool, binder), LAMBDA u :
        IF ~u.ok THEN [ok |-> FALSE, error |-> u.error, tool |-> tool]
        ELSE [ok |-> TRUE,
              config |->
                [method  |-> MethodLower(tool.method),
                 url     |-> u.url,
                 headers |-> IF Truthy(tool.headers)
                             THEN With(resolve(binder, tool.headers), LAMBDA resolvedHeaders :
                                      Spread(JObj(<< >>), resolvedHeaders))
                             ELSE JObj(<< >>),
                 params  |-> IF Truthy(tool.queryParams)
                             THEN With(resolve(binder, tool.queryParams), cleanParams)
                             ELSE JObj(<< >>),
                 data    |-> IF Truthy(tool.bodyTemplate)
                             THEN resolve(binder, tool.bodyTemplate)
                             ELSE JUndef],
              tool |-> tool])

\* RequestHandler.buildRequestConfig: [ok, config, tool] or [ok, error, tool];
\* tool is the ToolDefinition object as the call leaves it (the object is
\* the registry's own, passed by reference)
buildRequestConfig(tool, binder) ==
    With(buildUrl(tool, binder), LAMBDA u :
        IF ~u.ok THEN [ok |-> FALSE, error |-> u.error, tool |-> tool]
        ELSE [ok |-> TRUE,
              config |->
                [method  |-> MethodLower(tool.method),
                 url     |-> u.url,
                 headers |-> IF Truthy(tool.headers)
                             THEN With(resolve(binder, tool.headers), LAMBDA resolvedHeaders :
                                      Spread(JObj(<< >>), resolvedHeaders))
                             ELSE JObj(<< >>),
                 params  |-> IF Truthy(tool.queryParams)
                             THEN With(resolve(binder, tool.queryParams), cleanParams)
                             ELSE JObj(<< >>),
                 data    |-> IF tool.method \in {"POST", "PUT", "PATCH"} /\ Truthy(tool.bodyTemplate)
                             THEN resolve(binder, tool.bodyTemplate)
                             ELSE JUndef],
              tool |-> tool])

RECURSIVE SplitOn(_, _)
\* s.split(c) for a single character c
SplitOn(s, c) ==
    With(IndexOfChar(s, c, 1), LAMBDA p :
        IF p = 0 THEN <<s>>
        ELSE With(Slice(s, p + 1, Len(s)), LAMBDA rest :
                 <<Slice(s, 1, p - 1)>> \o SplitOn(rest, c)))

\* part in result, for a value that passed (result && typeof result === 'object')
PartIn(part, result) ==
    IF result.t = "array"
    THEN \/ (IsDigits(part) /\ NatToString(ParseDigits(part)) = part /\ ParseDigits(part) < Len(result.a))
         \/ part = <<"l","e","n","g","t","h">>
         \/ part \in ObjectPrototypeKeys
    ELSE In(part, result)

\* result[part], when part in result
PartOf(part, result) ==
    IF result.t = "array"
    THEN IF IsDigits(part) /\ NatToString(ParseDigits(part)) = part /\ ParseDigits(part) < Len(result.a)
         THEN result.a[ParseDigits(part) + 1]
         ELSE IF part = <<"l","e","n","g","t","h">> THEN JNum(Len(result.a))
         ELSE JFunc
    ELSE Get(result, part)

\* the loop of extractResponseData: [ok, data]
FollowParts(data, parts) ==
    LET F[i \in 0..Len(parts)] ==
            IF i = 0 THEN [ok |-> TRUE, data |-> data]
            ELSE With(F[i - 1], LAMBDA r :
                     IF ~r.ok THEN r
                     ELSE IF Truthy(r.data) /\ TypeOf(r.data) = "object" /\ PartIn(parts[i], r.data)
                     THEN [ok |-> TRUE, data |-> PartOf(parts[i], r.data)]
                     ELSE [ok |-> FALSE, data |-> JUndef])
    IN  F[Len(parts)]

\* RequestHandler.extractResponseData: [ok, data]; ~ok is the thrown Error
extractResponseData(data, path) == With(SplitOn(path, "."), LAMBDA parts : FollowParts(data, parts))

\* the header names extractRelevantHeaders keeps
RelevantHeaderNames ==
    << <<"c","o","n","t","e","n","t","-","t","y","p","e">>, <<"c","o","n","t","e","n","t","-","l","e","n","g","t","h">>, <<"x","-","r","a","t","e","l","i","m","i","t","-","l","i","m","i","t">>,
       <<"x","-","r","a","t","e","l","i","m","i","t","-","r","e","m","a","i","n","i","n","g">>, <<"x","-","r","a","t","e","l","i","m","i","t","-","r","e","s","e","t">> >>

\* RequestHandler.extractRelevantHeaders
extractRelevantHeaders(headers) ==
    LET F[i \in 0..Len(RelevantHeaderNames)] ==
            IF i = 0 THEN JObj(<< >>)
            ELSE With(F[i - 1], LAMBDA relevantHeaders :
                     IF Truthy(Get(headers, RelevantHeaderNames[i]))
                     THEN Put(relevantHeaders, RelevantHeaderNames[i], Get(headers, RelevantHeaderNames[i]))
                     ELSE relevantHeaders)
    IN  F[Len(RelevantHeaderNames)]

\* RequestHandler.processResponse
processResponse(response, tool) ==
    With(IF Truthy(tool.responseTransform)
         THEN extractResponseData(response.data, tool.responseTransform.s)
         ELSE [ok |-> TRUE, data |-> response.data], LAMBDA projected :
        [success |-> TRUE,
         data |-> IF projected.ok THEN projected.data ELSE response.data,
         error |-> JUndef,
         statusCode |-> response.status,
         headers |-> extractRelevantHeaders(response.headers)])

\* error.response?.status || 500
StatusCodeDefault == 500
\* the status of a ParameterBindingError result
StatusCodeBinding == 400

\* processError without its case for ParameterBindingError: a binding error
\* is reported as an unexpected error
processError_NoBindingCase(error) ==
    [success |-> FALSE, data |-> JUndef,
     error |-> JStr(<<"U","n","e","x","p","e","c","t","e","d"," ","e","r","r","o","r",":"," ">>
                    \o (IF error.name = "ParameterBindingError" THEN error.message ELSE << >>)),
     statusCode |-> JNum(StatusCodeDefault), headers |-> JUndef]

\* processError without "|| 500": the status code of the response, if any
processError_NoDefaultStatus(error) ==
    IF error.name = "ParameterBindingError"
    THEN [success |-> FALSE, data |-> JUndef,
          error |-> JStr(<<"P","a","r","a","m","e","t","e","r"," ","b","i","n","d","i","n","g"," ","e","r","r","o","r",":"," ">> \o error.message),
          statusCode |-> JNum(StatusCodeBinding), headers |-> JUndef]
    ELSE [success |-> FALSE, data |-> JUndef, error |-> JStr(<<"R","e","q","u","e","s","t"," ","f","a","i","l","e","d">>),
          statusCode |-> IF error.name = "AxiosError" /\ error.response # JUndef
                         THEN error.response.status ELSE JUndef,
          headers |-> JUndef]

\* RequestHandler.processError.  An error is a ParameterBindingError, an
\* AxiosError [name, code, response, request] or another Error [name, message]
processError(error) ==
    IF error.name = "ParameterBindingError"
    THEN [success |-> FALSE, data |-> JUndef,
          error |-> JStr(<<"P","a","r","a","m","e","t","e","r"," ","b","i","n","d","i","n","g"," ","e","r","r","o","r",":"," ">> \o error.message),
          statusCode |-> JNum(StatusCodeBinding), headers |-> JUndef]
    ELSE IF error.name = "AxiosError"
    THEN LET hasResponse == error.response # JUndef
             statusCode == IF hasResponse /\ Truthy(error.response.status)
                           THEN error.response.status ELSE JNum(StatusCodeDefault)
             errorData == IF hasResponse THEN error.response.data ELSE JUndef
             detail == IF Truthy(errorData) /\ TypeOf(errorData) = "object" /\ errorData.t = "object"
                       THEN IF Truthy(Get(errorData, <<"e","r","r","o","r">>))
                            THEN <<" ","-"," ">> \o StringOf(Get(errorData, <<"e","r","r","o","r">>))
                            ELSE IF Truthy(Get(errorData, <<"m","e","s","s","a","g","e">>))
                            THEN <<" ","-"," ">> \o StringOf(Get(errorData, <<"m","e","s","s","a","g","e">>))
                            ELSE << >>
                       ELSE << >>
             errorMessage ==
                 IF error.code = "ECONNABORTED" THEN <<"R","e","q","u","e","s","t"," ","t","i","m","e","o","u","t">>
                 ELSE IF hasResponse
                 THEN <<"H","T","T","P"," ">> \o StringOf(error.response.status) \o <<":"," ">>
                      \o error.response.statusText \o detail
                 ELSE IF error.request THEN <<"N","e","t","w","o","r","k"," ","e","r","r","o","r",":"," ","U","n","a","b","l","e"," ","t","o"," ","r","e","a","c","h"," ","t","h","e"," ","s","e","r","v","e","r">>
                 ELSE <<"R","e","q","u","e","s","t"," ","f","a","i","l","e","d">>
         IN  [success |-> FALSE, data |-> errorData, error |-> JStr(errorMessage),
              statusCode |-> statusCode, headers |-> JUndef]
    ELSE [success |-> FALSE, data |-> JUndef,
          error |-> JStr(<<"U","n","e","x","p","e","c","t","e","d"," ","e","r","r","o","r",":"," ">> \o error.message),
          statusCode |-> JNum(StatusCodeDefault), headers |-> JUndef]


(***************************************************************************)
(* The log events of a request.  A log entry is the level, the text of the *)
(* line (the pictograph that opens a heading is left out) and the data     *)
(* passed with it; the URL line is shown without the constant base URL.    *)
(***************************************************************************)
LogEntry(level, message, data) == [level |-> level, message |-> message, data |-> data]

Redacted == JStr(<<"[","R","E","D","A","C","T","E","D","]">>)

sensitiveHeaders == { <<"a","u","t","h","o","r","i","z","a","t","i","o","n">>, <<"x","-","a","p","i","-","k","e","y">>, <<"x","-","a","u","t","h","-","t","o","k","e","n">>, <<"c","o","o","k","i","e">>, <<"s","e","t","-","c","o","o","k","i","e">> }

\* sanitizeHeaders comparing each name as it is written
sanitizeHeaders_CaseSensitive(headers) ==
    JObj([i \in 1..Len(headers.e) |->
            KV(headers.e[i].k,
               IF headers.e[i].k \in sensitiveHeaders THEN Redacted ELSE headers.e[i].v)])

\* sanitizeHeaders: a copy in which the value of each sensitive header is masked
sanitizeHeaders(headers) ==
    JObj([i \in 1..Len(headers.e) |->
            KV(headers.e[i].k,
               IF toLowerCase(headers.e[i].k) \in sensitiveHeaders
               THEN Redacted ELSE headers.e[i].v)])

\* Object.keys(o || {}).length > 0
HasKeys(o) == Truthy(o) /\ o.t = "object" /\ Len(o.e) > 0

logRequest(tool, requestConfig) ==
    <<LogEntry("info", <<"H","T","T","P"," ","R","e","q","u","e","s","t"," ","[">> \o tool.name \o <<"]">>, JUndef),
      LogEntry("info", <<" "," "," ","M","e","t","h","o","d",":"," ">> \o MethodUpper(requestConfig.method), JUndef),
      LogEntry("info", <<" "," "," ","U","R","L",":"," ">> \o requestConfig.url, JUndef)>>
    \o (IF HasKeys(requestConfig.params)
        THEN <<LogEntry("info", <<" "," "," ","Q","u","e","r","y"," ","P","a","r","a","m","s",":">>, requestConfig.params)>> ELSE << >>)
    \o (IF HasKeys(requestConfig.headers)
        THEN <<LogEntry("info", <<" "," "," ","H","e","a","d","e","r","s",":">>, sanitizeHeaders(requestConfig.headers))>>
        ELSE << >>)
    \o (IF requestConfig.data # JUndef
        THEN <<LogEntry("info", <<" "," "," ","B","o","d","y",":">>, requestConfig.data)>> ELSE << >>)

logResponse(tool, response) ==
    <<LogEntry("info", <<"H","T","T","P"," ","R","e","s","p","o","n","s","e"," ","[">> \o tool.name \o <<"]">>, JUndef),
      LogEntry("info", <<" "," "," ","S","t","a","t","u","s",":"," ">> \o StringOf(response.status) \o <<" ">> \o response.statusText,
               JUndef)>>
    \o (IF HasKeys(response.headers)
        THEN <<LogEntry("info", <<" "," "," ","H","e","a","d","e","r","s",":">>, sanitizeHeaders(response.headers))>> ELSE << >>)
    \o (IF response.data # JUndef
        THEN <<LogEntry("info", <<" "," "," ","B","o","d","y",":">>, response.data)>> ELSE << >>)

logErrorResponse(tool, errorResponse) ==
    <<LogEntry("error", <<"H","T","T","P"," ","E","r","r","o","r"," ","R","e","s","p","o","n","s","e"," ","[">> \o tool.name \o <<"]">>, JUndef),
      LogEntry("error",
               <<" "," "," ","S","t","a","t","u","s",":"," ">> \o StringOf(errorResponse.status) \o <<" ">> \o errorResponse.statusText,
               JUndef)>>
    \o (IF HasKeys(errorResponse.headers)
        THEN <<LogEntry("error", <<" "," "," ","H","e","a","d","e","r","s",":">>, sanitizeHeaders(errorResponse.headers))>>
        ELSE << >>)
    \o (IF errorResponse.data # JUndef
        THEN <<LogEntry("error", <<" "," "," ","E","r","r","o","r"," ","B","o","d","y",":">>, errorResponse.data)>> ELSE << >>)
(***************************************************************************)
(* Loading a configuration: validation and registration.                   *)
(***************************************************************************)
\* /^[a-z][a-z0-9_]*$/.test(name)
IsToolName(name) ==
    /\ name # << >>
    /\ name[1] \in LowerChars
    /\ \A k \in 2..Len(name) : name[k] \in LowerChars \cup DigitChars \cup {"_"}

\* validateToolDefinition
validateToolDefinition(tool) ==
    /\ tool.name # << >>
    /\ tool.description # << >>
    /\ tool.method \in {"GET", "POST", "PUT", "PATCH", "DELETE"}
    /\ tool.path # << >>
    /\ tool.inputSchema \notin {JNull, JUndef}

\* extractPathPlaceholders, and the same expression in
\* McpServer.validateConfiguration: the names between the braces
extractPathPlaceholders(path) ==
    With(MatchPlaceholders(path, 1), LAMBDA matches :
        [i \in 1..Len(matches) |-> SubSeq(matches[i], 2, Len(matches[i]) - 1)])

\* array.includes(v) for a sequence
SeqIncludes(seq, v) == \E i \in 1..Len(seq) : seq[i] = v

\* a check of the path parameters that finds nothing missing
MissingPathParams_None(tool) == << >>

\* the placeholders of a tool's path that no pathParams key names
MissingPathParams(tool) ==
    With(extractPathPlaceholders(tool.path), LAMBDA pathPlaceholders :
    With(IF Truthy(tool.pathParams) THEN Keys(tool.pathParams) ELSE << >>, LAMBDA pathParams :
        SelectSeq(pathPlaceholders, LAMBDA p : ~SeqIncludes(pathParams, p))))

\* a check of the names that finds no duplicate
toolNamesHas_Never(toolList, index) == FALSE

\* toolNames.has(tool.name) for the tool at index: the Set holds the names
\* of the tools before it
toolNamesHas(toolList, index) ==
    \E j \in 1..(index - 1) : toolList[j].name = toolList[index].name

RECURSIVE validateJsonSchema(_)
\* validateJsonSchema: whether the schema is valid
validateJsonSchema(schema) ==
    /\ schema \notin {JNull, JUndef}
    /\ schema.type \in {"object", "string", "number", "integer", "boolean", "array", "null"}
    /\ schema.type = "object" /\ schema.properties # JUndef
          => \A i \in 1..Len(schema.properties.e) : validateJsonSchema(schema.properties.e[i].v)
    /\ schema.type = "object" /\ Truthy(schema.required)
          => /\ schema.required.t = "array"
             /\ \A i \in 1..Len(schema.required.a) : schema.required.a[i].t = "string"
    /\ schema.type = "array" /\ schema.items # JUndef => validateJsonSchema(schema.items)

\* validateToolConfiguration: whether the tool is valid
validateToolConfiguration(tool) ==
    /\ validateToolDefinition(tool)
    /\ IsToolName(tool.name)
    /\ MissingPathParams(tool) = << >>
    /\ validateJsonSchema(tool.inputSchema)

\* the tools section of validateMcpConfig (the server and api sections of
\* the model's configurations are valid): whether the configuration is valid
validateMcpConfig(config) ==
    /\ \A i \in 1..Len(config.tools) : validateToolConfiguration(config.tools[i])
    /\ \A i \in 1..Len(config.tools) : ~toolNamesHas(config.tools, i)

\* McpServer.validateConfiguration: whether errors is empty
validateConfiguration(config) ==
    \A i \in 1..Len(config.tools) :
        /\ ~toolNamesHas(config.tools, i)
        /\ IsToolName(config.tools[i].name)
        /\ MissingPathParams(config.tools[i]) = << >>

RECURSIVE convertPropertySchema(_)
\* ToolRegistry.convertPropertySchema
convertPropertySchema(propSchema) ==
    [SchemaOf(propSchema.type) EXCEPT
        !.enum = propSchema.enum,
        !.minimum = propSchema.minimum,
        !.maximum = propSchema.maximum,
        !.minLength = propSchema.minLength,
        !.maxLength = propSchema.maxLength,
        !.pattern = propSchema.pattern,
        !.properties =
            IF propSchema.type = "object" /\ Truthy(propSchema.properties)
            THEN JObj([i \in 1..Len(propSchema.properties.e) |->
                        KV(propSchema.properties.e[i].k,
                           convertPropertySchema(propSchema.properties.e[i].v))])
            ELSE JUndef,
        !.required =
            IF propSchema.type = "object" /\ Truthy(propSchema.properties) /\ Truthy(propSchema.required)
            THEN propSchema.required
            ELSE JUndef,
        !.items =
            IF propSchema.type = "array" /\ propSchema.items # JUndef
            THEN convertPropertySchema(propSchema.items)
            ELSE JUndef]

\* ToolRegistry.convertJsonSchemaToMcp
convertJsonSchemaToMcp(schema) ==
    [SchemaOf(schema.type) EXCEPT
        !.properties =
            IF Truthy(schema.properties)
            THEN JObj([i \in 1..Len(schema.properties.e) |->
                        KV(schema.properties.e[i].k,
                           convertPropertySchema(schema.properties.e[i].v))])
            ELSE JObj(<< >>),
        !.required = IF Truthy(schema.required) THEN schema.required ELSE JArr(<< >>),
        !.additionalProperties =
            IF schema.additionalProperties # JUndef THEN schema.additionalProperties
            ELSE JBool(FALSE)]

\* ToolRegistry.createMcpTool
createMcpTool(toolDef) ==
    [name |-> toolDef.name, description |-> toolDef.description,
     inputSchema |-> convertJsonSchemaToMcp(toolDef.inputSchema)]

\* the registry's Map before any tool is set
EmptyRegistry == JObj(<< >>)

\* whether createMcpTool throws: convertJsonSchemaToMcp reads schema.type of
\* a missing inputSchema, or convertPropertySchema reads propSchema.type of
\* a property that is null
createMcpToolThrows(toolDef) ==
    \/ toolDef.inputSchema \in {JNull, JUndef}
    \/ /\ Truthy(toolDef.inputSchema.properties)
       /\ \E k \in 1..Len(toolDef.inputSchema.properties.e) :
              toolDef.inputSchema.properties.e[k].v \in {JNull, JUndef}

\* registerToolsFromConfig that sets the tools only when all were created
registerToolsFromConfig_AllOrNothing(config) ==
    IF \E i \in 1..Len(config.tools) : createMcpToolThrows(config.tools[i])
    THEN [threw |-> TRUE, tools |-> EmptyRegistry]
    ELSE [threw |-> FALSE,
          tools |-> LET F[i \in 0..Len(config.tools)] ==
                            IF i = 0 THEN EmptyRegistry
                            ELSE With(F[i - 1], LAMBDA registered :
                                     Put(registered, config.tools[i].name,
                                         [definition |-> config.tools[i],
                                          mcpTool |-> createMcpTool(config.tools[i])]))
                    IN  F[Len(config.tools)]]

\* ToolRegistry.registerToolsFromConfig: [threw, tools]; the Map is cleared,
\* and when createMcpTool throws the tools set before it stay
registerToolsFromConfig(config) ==
    LET bad(i) == createMcpToolThrows(config.tools[i])
        stop == IF \E i \in 1..Len(config.tools) : bad(i)
                THEN CHOOSE i \in 1..Len(config.tools) : bad(i) /\ \A j \in 1..(i - 1) : ~bad(j)
                ELSE Len(config.tools) + 1
        F[i \in 0..Len(config.tools)] ==
            IF i = 0 THEN EmptyRegistry
            ELSE With(F[i - 1], LAMBDA registered :
                     Put(registered, config.tools[i].name,
                         [definition |-> config.tools[i],
                          mcpTool |-> createMcpTool(config.tools[i])]))
    IN  [threw |-> stop <= Len(config.tools), tools |-> F[stop - 1]]

\* ToolRegistry.getMcpTools
getMcpTools(registry) == [i \in 1..Len(registry.e) |-> registry.e[i].v.mcpTool]

\* hasTool that finds every name
hasTool_Always(registry, name) == TRUE

\* ToolRegistry.hasTool
hasTool(registry, name) == HasOwn(registry, name)

\* main: the configuration is validated (validateAndParseMcpConfig throws on
\* an invalid one), the server is constructed, which registers the tools,
\* and validateConfiguration is asked again; the process exits on a failure,
\* before the server is started.
\* [server, tools]: the state of the process and of its registry
main(config) ==
    IF ~validateMcpConfig(config) THEN [server |-> "exited", tools |-> EmptyRegistry]
    ELSE With(registerToolsFromConfig(config), LAMBDA registered :
             IF registered.threw \/ ~validateConfiguration(config)
             THEN [server |-> "exited", tools |-> registered.tools]
             ELSE [server |-> "running", tools |-> registered.tools])

(***************************************************************************)
(* ToolRegistry.executeTool and its callers.                               *)
(***************************************************************************)
\* Map.prototype.get: own entries only
MapGet(map, key) ==
    IF HasOwn(map, key) THEN map.e[CHOOSE i \in 1..Len(map.e) : map.e[i].k = key].v
    ELSE JUndef

\* one stage of a call, as it ends
Stage(stage, ok) == [stage |-> stage, ok |-> ok]

\* the stages in the order of executeTool and executeRequest
StageOrder ==
    <<"Lookup", "RequiredArgsCheck", "TypeValidate", "Build", "Execute", "ProjectResponse">>

\* a check of the error list that never throws
HasErrors_Never(errors) == FALSE

\* errors.length > 0: whether executeTool throws on a list of errors
HasErrors(errors) == Len(errors) > 0

\* the part of executeTool that runs before executeRequest is called:
\* [stages, threw, message, errors, context]
executeToolChecks(registry, name, args) ==
    With(MapGet(registry, name), LAMBDA registeredTool :
        IF registeredTool = JUndef
        THEN [stages |-> <<Stage("Lookup", FALSE)>>, threw |-> TRUE,
              message |-> <<"T","o","o","l"," ">> \o DoubleQuote \o name \o DoubleQuote \o <<" ","n","o","t"," ","f","o","u","n","d">>,
              errors |-> << >>,
              context |-> JUndef]
        ELSE
        LET toolDef == registeredTool.definition
        IN
        With(validateRequiredArguments(toolDef, args), LAMBDA validationErrors :
        With(<<Stage("Lookup", TRUE),
               Stage("RequiredArgsCheck", validationErrors = << >>)>>, LAMBDA required :
            IF HasErrors(validationErrors)
            THEN [stages |-> required, threw |-> TRUE,
                  message |-> <<"V","a","l","i","d","a","t","i","o","n"," ","f","a","i","l","e","d",":"," ">> \o JoinStrings(validationErrors, <<","," ">>),
                  errors |-> validationErrors,
                  context |-> JUndef]
            ELSE
            With(validateArgumentTypes(toolDef, args), LAMBDA typeValidationErrors :
            With(Append(required, Stage("TypeValidate", typeValidationErrors = << >>)), LAMBDA typed :
                IF HasErrors(typeValidationErrors)
                THEN [stages |-> typed, threw |-> TRUE,
                      message |-> <<"T","y","p","e"," ","v","a","l","i","d","a","t","i","o","n"," ","f","a","i","l","e","d",":"," ">>
                                  \o JoinStrings(typeValidationErrors, <<","," ">>),
                      errors |-> typeValidationErrors,
                      context |-> JUndef]
                ELSE [stages |-> typed, threw |-> FALSE, message |-> << >>,
                      errors |-> typeValidationErrors,
                      context |-> [tool |-> toolDef, args |-> args]])))))

\* the error codes of the protocol that the CallTool handler uses
CodeMethodNotFound == "MethodNotFound"
CodeInternalError == "InternalError"

\* what the caller of a tool gets: the CallTool handler returns the data or
\* throws an McpError with a code; testTool returns {success, result, error}
Returned(data) == [ok |-> TRUE, data |-> data, message |-> << >>, code |-> "none"]
Failed(via, message, code) ==
    [ok |-> FALSE, data |-> JUndef, message |-> message,
     code |-> IF via = "handler" THEN code ELSE "none"]

(***************************************************************************)
(* The configurations, calls and transport outcomes of the model.          *)
(***************************************************************************)
ToolOf(name, method, path, inputSchema) ==
    [name |-> name, description |-> <<"d">>, method |-> method, path |-> path,
     pathParams |-> JUndef, queryParams |-> JUndef, headers |-> JUndef,
     bodyTemplate |-> JUndef, responseTransform |-> JUndef, inputSchema |-> inputSchema]

GetUserSchema ==
    [SchemaOf("object") EXCEPT
        !.properties = JObj(<<
            KV(<<"u","i","d">>, [SchemaOf("string") EXCEPT !.minLength = JNum(2)]),
            KV(<<"q">>, SchemaOf("string")),
            KV(<<"n">>, [SchemaOf("integer") EXCEPT !.minimum = JNum(1), !.maximum = JNum(100)]) >>)]

GetUser ==
    [ToolOf(<<"g","e","t","_","u","s","e","r">>, "GET", <<"/","u","/","{","i","d","}">>, GetUserSchema) EXCEPT
        !.pathParams = JObj(<<KV(<<"i","d">>, JStr(<<"{","a","r","g","s",".","u","i","d","}">>))>>),
        !.queryParams = JObj(<<KV(<<"q">>, JStr(<<"{","a","r","g","s",".","q","?","}">>)), KV(<<"n">>, JStr(<<"{","a","r","g","s",".","n"," ","|","|"," ","2","5","}">>))>>),
        !.headers = JObj(<<KV(<<"x","-","a","p","i","-","k","e","y">>, JStr(<<"{","e","n","v",".","K","E","Y","}">>))>>),
        !.responseTransform = JStr(<<"d","a","t","a",".","i","d">>)]

AddResultSchema ==
    [SchemaOf("object") EXCEPT
        !.properties = JObj(<<
            KV(<<"d","r","i","v","e","r">>, [SchemaOf("string") EXCEPT !.pattern = JStr(PatternLower)]),
            KV(<<"p","o","s">>, [SchemaOf("integer") EXCEPT !.minimum = JNum(1)]),
            KV(<<"c","o","n","s","t","r","u","c","t","o","r">>, SchemaOf("string")) >>),
        !.required = JArr(<<JStr(<<"d","r","i","v","e","r">>), JStr(<<"p","o","s">>), JStr(<<"c","o","n","s","t","r","u","c","t","o","r">>)>>)]

AddResult ==
    [ToolOf(<<"a","d","d","_","r","e","s","u","l","t">>, "POST", <<"/","r">>, AddResultSchema) EXCEPT
        !.bodyTemplate = JObj(<<KV(<<"d","r","i","v","e","r">>, JStr(<<"{","a","r","g","s",".","d","r","i","v","e","r","}">>)),
                                KV(<<"t","e","a","m">>, JStr(<<"{","a","r","g","s",".","c","o","n","s","t","r","u","c","t","o","r","}">>)),
                                KV(<<"p","o","s">>, JStr(<<"{","a","r","g","s",".","p","o","s","}">>))>>)]

\* a tool whose second placeholder has no pathParams entry
GetOrder ==
    [ToolOf(<<"g","e","t","_","o","r","d","e","r">>, "GET", <<"/","u","/","{","i","d","}","/","o","/","{","o","i","d","}">>, SchemaOf("object")) EXCEPT
        !.pathParams = JObj(<<KV(<<"i","d">>, JStr(<<"{","a","r","g","s",".","u","i","d","}">>))>>)]

GoodConfig == [tools |-> <<GetUser, AddResult>>]
\* two tools of one name
DuplicateConfig == [tools |-> <<GetUser, AddResult, [AddResult EXCEPT !.name = <<"g","e","t","_","u","s","e","r">>]>>]
\* a placeholder without a pathParams entry
UnboundPathConfig == [tools |-> <<GetUser, GetOrder>>]

\* before a configuration is loaded
NoConfig == [tools |-> << >>]

Configs == {GoodConfig, DuplicateConfig, UnboundPathConfig}

CallOf(via, name, args) == [via |-> via, name |-> name, args |-> args]

\* the calls of the model: an unknown tool, missing and null required
\* arguments, violated types, an unresolved path parameter, and good calls
CallInputs ==
    { CallOf("handler", <<"n","o","p","e">>, JObj(<< >>)),
      CallOf("testTool", <<"n","o","p","e">>, JObj(<<KV(<<"p","o","s">>, JStr(<<"x">>))>>)),
      CallOf("handler", <<"a","d","d","_","r","e","s","u","l","t">>, JObj(<< >>)),
      CallOf("testTool", <<"a","d","d","_","r","e","s","u","l","t">>,
             JObj(<<KV(<<"d","r","i","v","e","r">>, JNull), KV(<<"p","o","s">>, JStr(<<"x">>)), KV(<<"c","o","n","s","t","r","u","c","t","o","r">>, JStr(<<"r","b">>))>>)),
      CallOf("handler", <<"a","d","d","_","r","e","s","u","l","t">>,
             JObj(<<KV(<<"d","r","i","v","e","r">>, JStr(<<"M","4">>)), KV(<<"p","o","s">>, JNum(0)), KV(<<"c","o","n","s","t","r","u","c","t","o","r">>, JStr(<<"r","b">>))>>)),
      CallOf("handler", <<"a","d","d","_","r","e","s","u","l","t">>,
             JObj(<<KV(<<"d","r","i","v","e","r">>, JStr(<<"m","a","x">>)), KV(<<"p","o","s">>, JNum(1)), KV(<<"c","o","n","s","t","r","u","c","t","o","r">>, JStr(<<"r","b">>))>>)),
      CallOf("handler", <<"g","e","t","_","u","s","e","r">>, JObj(<< >>)),
      CallOf("testTool", <<"g","e","t","_","o","r","d","e","r">>, JObj(<<KV(<<"u","i","d">>, JStr(<<"z","e","d">>))>>)),
      CallOf("testTool", <<"g","e","t","_","u","s","e","r">>, JObj(<<KV(<<"u","i","d">>, JStr(<<"a"," ","b">>))>>)),
      CallOf("handler", <<"g","e","t","_","u","s","e","r">>, JObj(<<KV(<<"u","i","d">>, JStr(<<"z","e","d">>)), KV(<<"q">>, JStr(<<"x">>))>>)) }

\* a response of the transport
ResponseOf(status, statusText, data) ==
    [status |-> JNum(status), statusText |-> statusText,
     headers |-> JObj(<<KV(<<"c","o","n","t","e","n","t","-","t","y","p","e">>, JStr(<<"j","s","o","n">>))>>), data |-> data]

\* an AxiosError
AxiosError(code, response, request) ==
    [name |-> "AxiosError", code |-> code, response |-> response, request |-> request]

\* what the transport may answer: a body the response transforms can follow,
\* one they cannot, a non-2xx status, a timeout, and no answer at all
TransportOutcomes ==
    { [ok |-> TRUE,
       response |-> ResponseOf(200, <<"O","K">>,
            JObj(<<KV(<<"d","a","t","a">>, JObj(<<KV(<<"i","d">>, JNum(7))>>))>>))],
      [ok |-> TRUE, response |-> ResponseOf(200, <<"O","K">>, JObj(<<KV(<<"i","d">>, JNum(7))>>))],
      [ok |-> FALSE,
       error |-> AxiosError("ERR_BAD_REQUEST",
            ResponseOf(404, <<"N","o","t"," ","F","o","u","n","d">>, JObj(<<KV(<<"e","r","r","o","r">>, JStr(<<"g","o","n","e">>))>>)), TRUE)],
      [ok |-> FALSE, error |-> AxiosError("ECONNABORTED", JUndef, TRUE)],
      [ok |-> FALSE, error |-> AxiosError("ENOTFOUND", JUndef, TRUE)] }

(***************************************************************************)
(* The state machine.                                                      *)
(***************************************************************************)
IdleCall ==
    [pc |-> "idle", via |-> "none", name |-> << >>, args |-> JUndef, stages |-> << >>,
     errors |-> << >>, context |-> JUndef, built |-> JUndef, sent |-> << >>, result |-> JUndef,
     response |-> JUndef, caught |-> JUndef, logs |-> << >>, outcome |-> JUndef]

\* no registerToolsFromConfig after the construction yet
NoReload == [done |-> FALSE]

StartIds == 1..MaxStarts
StopIds == 1..MaxStops

\* the McpServer after its construction: isRunning is false, no start() or
\* stop() has been called and no transport is connected.  lastSettled is
\* the last connect or close that completed successfully; a stop() call
\* remembers the start() calls that had been issued and those that were
\* awaiting their connect when it arrived.
NewMcpServer ==
    [isRunning |-> FALSE,
     starts |-> [s \in StartIds |-> "idle"],
     stops |-> [p \in StopIds |-> [pc |-> "idle", issued |-> {}, awaiting |-> {}]],
     transports |-> 0,
     lastSettled |-> "none"]

Init ==
    /\ server = "init"
    /\ serverConfig = NoConfig
    /\ tools = EmptyRegistry
    /\ calls = [c \in CallIds |-> IdleCall]
    /\ reload = NoReload
    /\ lifecycle = NewMcpServer

\* main loads one configuration
LoadConfig(loaded) ==
    /\ server = "init"
    /\ \E started \in {main(loaded)} :
          /\ server' = started.server
          /\ tools' = started.tools
    /\ serverConfig' = loaded
    /\ UNCHANGED <<calls, reload, lifecycle>>

\* the registry after a call's synchronous part: the definition the call was
\* given is the registry's own object
RegistryAfter(registry, name, tool) ==
    IF HasOwn(registry, name)
    THEN Put(registry, name, [MapGet(registry, name) EXCEPT !.definition = tool])
    ELSE registry

\* A call arrives, through the CallTool handler or through testTool, and
\* runs up to its first await: the handler's hasTool, executeTool's checks,
\* and executeRequest up to "await this.buildRequestConfig(...)".
CallTool(c, in) ==
    /\ server = "running"
    /\ calls[c].pc = "idle"
    /\ c > 1 => calls[c - 1].pc # "idle"
    /\ LET started == [IdleCall EXCEPT !.via = in.via, !.name = in.name, !.args = in.args]
           notFound == <<"T","o","o","l"," ">> \o DoubleQuote \o in.name \o DoubleQuote \o <<" ","n","o","t"," ","f","o","u","n","d">>
       IN  IF in.via = "handler" /\ ~hasTool(tools, in.name)
           THEN /\ calls' = [calls EXCEPT ![c] =
                        [started EXCEPT !.pc = "done",
                                        !.stages = <<Stage("Lookup", FALSE)>>,
                                        !.outcome = Failed(in.via, notFound, CodeMethodNotFound)]]
                /\ UNCHANGED tools
           ELSE
           \E checks \in {executeToolChecks(tools, in.name, in.args)} :
               IF checks.threw
               THEN /\ calls' = [calls EXCEPT ![c] =
                            [started EXCEPT !.pc = "done", !.stages = checks.stages,
                                            !.errors = checks.errors,
                                            !.outcome = Failed(in.via, checks.message, CodeInternalError)]]
                    /\ UNCHANGED tools
               ELSE
               \E binder \in {NewParameterBinder(checks.context.args, ProcessEnv)} :
               \E built \in {buildRequestConfig(checks.context.tool, binder)} :
                   /\ calls' = [calls EXCEPT ![c] =
                            [started EXCEPT !.pc = "building",
                                            !.stages = Append(checks.stages, Stage("Build", built.ok)),
                                            !.context = checks.context,
                                            !.built = built]]
                   /\ tools' = RegistryAfter(tools, in.name, built.tool)
    /\ UNCHANGED <<server, serverConfig, reload, lifecycle>>

\* executeTool without "if (!result.success) throw": the data of a failed
\* result is returned
OutcomeOf_NoThrow(via, result) == Returned(result.data)

\* what the caller gets from the RequestResult of executeRequest
OutcomeOf(via, result) ==
    IF ~result.success
    THEN Failed(via, IF Truthy(result.error) THEN result.error.s ELSE <<"R","e","q","u","e","s","t"," ","f","a","i","l","e","d">>,
                CodeInternalError)
    ELSE Returned(result.data)

\* executeRequest resumes after "await this.buildRequestConfig(...)": a
\* rejected build goes to the catch block, a built request to the transport
\* context.tool read from the registry's table as it is now
ContextTool_Current(c) ==
    IF HasOwn(tools, calls[c].name) THEN MapGet(tools, calls[c].name).definition
    ELSE calls[c].context.tool

\* context.tool inside executeRequest: the definition executeTool looked up
ContextTool(c) == calls[c].context.tool

ResumeExecuteRequest(c) ==
    /\ calls[c].pc = "building"
    /\ IF calls[c].built.ok
       THEN calls' = [calls EXCEPT
                ![c].pc = "sent",
                ![c].logs = @ \o logRequest(ContextTool(c), calls[c].built.config),
                ![c].sent = Append(@, calls[c].built.config)]
       ELSE \E result \in {processError(calls[c].built.error)} :
                calls' = [calls EXCEPT ![c].pc = "done",
                                       ![c].caught = calls[c].built.error,
                                       ![c].result = result,
                                       ![c].outcome = OutcomeOf(calls[c].via, result)]
    /\ UNCHANGED <<server, serverConfig, tools, reload, lifecycle>>

\* a transport failure that sends the request once more
TransportSettles_Retry(c, outcome) ==
    /\ calls[c].pc = "sent"
    /\ IF outcome.ok
       THEN \E result \in {processResponse(outcome.response, ContextTool(c))} :
                calls' = [calls EXCEPT
                    ![c].pc = "done",
                    ![c].stages = @ \o <<Stage("Execute", TRUE), Stage("ProjectResponse", TRUE)>>,
                    ![c].response = outcome.response,
                    ![c].logs = @ \o logResponse(ContextTool(c), outcome.response),
                    ![c].result = result,
                    ![c].outcome = OutcomeOf(calls[c].via, result)]
       ELSE calls' = [calls EXCEPT ![c].sent = Append(@, calls[c].built.config)]
    /\ UNCHANGED <<server, serverConfig, tools, reload, lifecycle>>

\* the transport settles the request of a call: executeRequest processes the
\* response or the error, executeTool and the caller end
TransportSettles(c, outcome) ==
    /\ calls[c].pc = "sent"
    /\ \E result \in {IF outcome.ok
                      THEN processResponse(outcome.response, ContextTool(c))
                      ELSE processError(outcome.error)} :
           calls' = [calls EXCEPT
                ![c].pc = "done",
                ![c].stages = IF outcome.ok
                              THEN @ \o <<Stage("Execute", TRUE), Stage("ProjectResponse", TRUE)>>
                              ELSE Append(@, Stage("Execute", FALSE)),
                ![c].response = IF outcome.ok THEN outcome.response ELSE JUndef,
                ![c].caught = IF outcome.ok THEN JUndef ELSE outcome.error,
                ![c].logs = @ \o (IF outcome.ok
                                  THEN logResponse(ContextTool(c), outcome.response)
                                  ELSE IF outcome.error.name = "AxiosError"
                                          /\ outcome.error.response # JUndef
                                  THEN logErrorResponse(ContextTool(c),
                                                        outcome.error.response)
                                  ELSE << >>),
                ![c].result = result,
                ![c].outcome = OutcomeOf(calls[c].via, result)]
    /\ UNCHANGED <<server, serverConfig, tools, reload, lifecycle>>

Next ==
    \/ \E loaded \in Configs : LoadConfig(loaded)
    \/ \E c \in CallIds, in \in CallInputs : CallTool(c, in)
    \/ \E c \in CallIds : ResumeExecuteRequest(c)
    \/ \E c \in CallIds, outcome \in TransportOutcomes : TransportSettles(c, outcome)

Spec == Init /\ [][Next]_vars

(***************************************************************************)
(* Reloading: registerToolsFromConfig is called again on the registry of   *)
(* the running server, while a call may be suspended at the transport.     *)
(***************************************************************************)
\* get_user with another method, path and responseTransform
GetUserV2 ==
    [GetUser EXCEPT !.method = "POST", !.path = <<"/","v","2","/","u","/","{","i","d","}">>, !.responseTransform = JStr(<<"i","d">>)]

\* a tool that passes validateMcpConfig and on which createMcpTool throws:
\* the properties of a schema that is not of type object are not validated
Unconvertible ==
    ToolOf(<<"b","r","o","k","e","n">>, "GET", <<"/","b">>,
           [SchemaOf("string") EXCEPT !.properties = JObj(<<KV(<<"a">>, JNull)>>)])

ReloadConfigs ==
    { [tools |-> <<GetUserV2>>],
      [tools |-> <<AddResult>>],
      [tools |-> << >>],
      [tools |-> <<GetOrder, Unconvertible, GetUserV2>>],
      [tools |-> <<Unconvertible>>] }

\* registerToolsFromConfig(config) on the registry of the running server;
\* reload remembers the table before it and the calls suspended at the
\* transport at that moment
Reload(config) ==
    /\ server = "running"
    /\ \E registered \in {registerToolsFromConfig(config)} :
          /\ tools' = registered.tools
          /\ reload' = [done |-> TRUE, before |-> tools, config |-> config,
                        threw |-> registered.threw,
                        suspended |-> {c \in CallIds : calls[c].pc = "sent"}]
    /\ UNCHANGED <<server, serverConfig, calls, lifecycle>>

ReloadCalls ==
    { CallOf("handler", <<"g","e","t","_","u","s","e","r">>, JObj(<<KV(<<"u","i","d">>, JStr(<<"z","e","d">>))>>)),
      CallOf("testTool", <<"g","e","t","_","u","s","e","r">>, JObj(<<KV(<<"u","i","d">>, JStr(<<"a"," ","b">>)), KV(<<"n">>, JNum(5))>>)),
      CallOf("handler", <<"a","d","d","_","r","e","s","u","l","t">>,
             JObj(<<KV(<<"d","r","i","v","e","r">>, JStr(<<"m","a","x">>)), KV(<<"p","o","s">>, JNum(1)), KV(<<"c","o","n","s","t","r","u","c","t","o","r">>, JStr(<<"r","b">>))>>)) }

NextReload ==
    \/ LoadConfig(GoodConfig)
    \/ \E in \in ReloadCalls : CallTool(1, in)
    \/ ResumeExecuteRequest(1)
    \/ \E config \in ReloadConfigs : Reload(config)
    \/ \E outcome \in TransportOutcomes : TransportSettles(1, outcome)

SpecReload == Init /\ [][NextReload]_vars

(***************************************************************************)
(* McpServer.start and McpServer.stop.  A call runs up to its await and    *)
(* continues when the connect or the close of the underlying server has    *)
(* settled; stop() is called directly or by the SIGINT and SIGTERM         *)
(* handlers.                                                               *)
(***************************************************************************)
\* start() up to "await this.server.connect(transport)"
start(s) ==
    /\ server = "running"
    /\ lifecycle.starts[s] = "idle"
    /\ s > 1 => lifecycle.starts[s - 1] # "idle"
    /\ lifecycle' = [lifecycle EXCEPT
            !.starts[s] = IF lifecycle.isRunning THEN "returned" ELSE "connecting"]
    /\ UNCHANGED <<server, serverConfig, tools, calls, reload>>

\* the continuation of start() that sets isRunning whether or not the
\* connect succeeded
ConnectSettles_Always(s, ok) ==
    /\ lifecycle.starts[s] = "connecting"
    /\ lifecycle' = [lifecycle EXCEPT
            !.isRunning = TRUE,
            !.transports = IF ok THEN @ + 1 ELSE @,
            !.lastSettled = IF ok THEN "connect" ELSE @,
            !.starts[s] = IF ok THEN "returned" ELSE "threw"]
    /\ UNCHANGED <<server, serverConfig, tools, calls, reload>>

\* the connect of start() settles: isRunning = true after a success, the
\* error is logged and thrown again after a failure
ConnectSettles(s, ok) ==
    /\ lifecycle.starts[s] = "connecting"
    /\ lifecycle' = IF ok
                    THEN [lifecycle EXCEPT !.isRunning = TRUE,
                                           !.transports = @ + 1,
                                           !.lastSettled = "connect",
                                           !.starts[s] = "returned"]
                    ELSE [lifecycle EXCEPT !.starts[s] = "threw"]
    /\ UNCHANGED <<server, serverConfig, tools, calls, reload>>

\* stop() up to "await this.server.close()"
stop(p) ==
    /\ server = "running"
    /\ lifecycle.stops[p].pc = "idle"
    /\ p > 1 => lifecycle.stops[p - 1].pc # "idle"
    /\ lifecycle' = [lifecycle EXCEPT
            !.stops[p] =
                [pc |-> IF lifecycle.isRunning THEN "closing" ELSE "returned",
                 issued |-> {s \in StartIds : lifecycle.starts[s] # "idle"},
                 awaiting |-> {s \in StartIds : lifecycle.starts[s] = "connecting"}]]
    /\ UNCHANGED <<server, serverConfig, tools, calls, reload>>

\* the close of stop() settles: isRunning = false after a success, the error
\* is logged and thrown again after a failure
CloseSettles(p, ok) ==
    /\ lifecycle.stops[p].pc = "closing"
    /\ lifecycle' = IF ok
                    THEN [lifecycle EXCEPT !.isRunning = FALSE,
                                           !.transports = 0,
                                           !.lastSettled = "close",
                                           !.stops[p].pc = "returned"]
                    ELSE [lifecycle EXCEPT !.stops[p].pc = "threw"]
    /\ UNCHANGED <<server, serverConfig, tools, calls, reload>>

NextLifecycle ==
    \/ LoadConfig(GoodConfig)
    \/ \E s \in StartIds : start(s)
    \/ \E s \in StartIds, ok \in BOOLEAN : ConnectSettles(s, ok)
    \/ \E p \in StopIds : stop(p)
    \/ \E p \in StopIds, ok \in BOOLEAN : CloseSettles(p, ok)

SpecLifecycle == Init /\ [][NextLifecycle]_vars

(***************************************************************************)
(* The failures of a request: besides the answers of the transport, its    *)
(* promise may reject with an error that is not an AxiosError.             *)
(***************************************************************************)
PlainError(message) == [name |-> "Error", message |-> message]

FailOutcomes ==
    TransportOutcomes
    \cup { [ok |-> FALSE, error |-> PlainError(<<"b","o","o","m">>)],
           [ok |-> FALSE,
            error |-> AxiosError("ERR_BAD_RESPONSE",
                 ResponseOf(503, <<"S","e","r","v","i","c","e"," ","U","n","a","v","a","i","l","a","b","l","e">>, JStr(<<"d","o","w","n">>)), TRUE)],
           [ok |-> FALSE, error |-> AxiosError("ERR_CANCELED", JUndef, FALSE)] }

NextFail ==
    \/ LoadConfig(GoodConfig)
    \/ \E c \in CallIds, in \in CallInputs : CallTool(c, in)
    \/ \E c \in CallIds : ResumeExecuteRequest(c)
    \/ \E c \in CallIds, outcome \in FailOutcomes : TransportSettles(c, outcome)

SpecFail == Init /\ [][NextFail]_vars

(***************************************************************************)
(* Type validation on its own: one tool whose schema has string, integer,  *)
(* array and nested object properties, called once with every combination  *)
(* of the values below.  Property e has a maxLength of 0.                  *)
(***************************************************************************)
ProbeSchema ==
    [SchemaOf("object") EXCEPT
        !.properties = JObj(<<
            KV(<<"s">>, [SchemaOf("string") EXCEPT
                        !.minLength = JNum(2), !.maxLength = JNum(3),
                        !.pattern = JStr(PatternLower),
                        !.enum = JArr(<<JStr(<<"a","b">>), JStr(<<"a","b","c">>)>>)]),
            KV(<<"n">>, [SchemaOf("integer") EXCEPT !.minimum = JNum(1), !.maximum = JNum(5)]),
            KV(<<"e">>, [SchemaOf("string") EXCEPT !.maxLength = JNum(0)]),
            KV(<<"t","a","g","s">>, [SchemaOf("array") EXCEPT
                        !.items = [SchemaOf("string") EXCEPT !.pattern = JStr(PatternLower)]]),
            KV(<<"m","e","t","a">>, [SchemaOf("object") EXCEPT
                        !.properties = JObj(<<
                            KV(<<"k">>, [SchemaOf("integer") EXCEPT !.minimum = JNum(1)]),
                            KV(<<"b">>, SchemaOf("boolean")) >>)]) >>)]

Probe ==
    [ToolOf(<<"p","r","o","b","e">>, "POST", <<"/","p">>, ProbeSchema) EXCEPT
        !.bodyTemplate = JObj(<<KV(<<"s">>, JStr(<<"{","a","r","g","s",".","s","?","}">>)), KV(<<"n">>, JStr(<<"{","a","r","g","s",".","n"," ","|","|"," ","1","}">>))>>)]

ProbeConfig == [tools |-> <<Probe>>]

\* an argument that the call does not pass
Absent == [t |-> "absent"]

ProbeS == { Absent, JStr(<<"a","b">>), JStr(<<"A">>), JStr(<<"A","B","C","D">>), JNum(5) }
ProbeN == { Absent, JNum(3), JNum(0), JNum(1), JNum(5), JNum(6), JFrac(1, <<"5">>), JFrac(5, <<"5">>),
            JStr(<<"x">>), JNull }
ProbeE == { Absent, JStr(<<"x">>) }
ProbeTags == { Absent, JArr(<<JStr(<<"a">>)>>), JArr(<<JStr(<<"A">>), JNum(1), JStr(<<"b">>)>>), JStr(<<"x">>) }
ProbeMeta == { Absent, JObj(<<KV(<<"k">>, JNum(1))>>),
               JObj(<<KV(<<"k">>, JNum(0)), KV(<<"b">>, JStr(<<"n","o">>)), KV(<<"o","t","h","e","r">>, JNull)>>) }

\* the calls of the probe: the arguments that are passed, in order
ProbeInputs ==
    { CallOf("testTool", <<"p","r","o","b","e">>,
             JObj(SelectSeq(<<KV(<<"s">>, s), KV(<<"n">>, n), KV(<<"e">>, e), KV(<<"t","a","g","s">>, tags),
                              KV(<<"m","e","t","a">>, meta)>>,
                            LAMBDA entry : entry.v # Absent))) :
        s \in ProbeS, n \in ProbeN, e \in ProbeE, tags \in ProbeTags, meta \in ProbeMeta }

NextValidate ==
    \/ LoadConfig(ProbeConfig)
    \/ \E in \in ProbeInputs : CallTool(1, in)
    \/ ResumeExecuteRequest(1)
    \/ \E outcome \in TransportOutcomes : TransportSettles(1, outcome)

SpecValidate == Init /\ [][NextValidate]_vars

(***************************************************************************)
(* The expression resolver on its own: one POST tool whose bodyTemplate is *)
(* the template under test, so that the body of the built request is       *)
(* binder.resolve(template).  The configuration that is loaded chooses the *)
(* template, the call chooses the arguments.                               *)
(***************************************************************************)
\* an expression without "|| default"
NoDefault == [text |-> << >>, value |-> JUndef, none |-> TRUE]
\* a default literal as it is written and the value it stands for
DefaultOf(text, value) == [text |-> text, value |-> value, none |-> FALSE]

DefaultLiterals ==
    { DefaultOf(<<"2","5">>, JNum(25)), DefaultOf(<<"'","a"," ","b","'">>, JStr(<<"a"," ","b">>)),
      DefaultOf(<<"1",".","5","0">>, JFrac(1, <<"5">>)), DefaultOf(<<"t","r","u","e">>, JBool(TRUE)),
      DefaultOf(<<"n","u","l","l">>, JNull), DefaultOf(<<"u","n","d","e","f","i","n","e","d">>, JUndef),
      DefaultOf(<<"a","b","c">>, JStr(<<"a","b","c">>)) }

ExpressionKeys == { <<"l","i","m","i","t">>, <<"x">>, <<"K","E","Y">>, <<"c","o","n","s","t","r","u","c","t","o","r">> }

\* the expressions under test: {ns.key}, {ns.key?}, {ns.key || default},
\* {ns.key? || default}
Expressions ==
    [ns : {"args", "env"}, key : ExpressionKeys, optional : BOOLEAN,
     default : DefaultLiterals \cup {NoDefault}]

\* an expression as it is written in a template
ExprText(e) ==
    <<"{">> \o (IF e.ns = "args" THEN <<"a","r","g","s">> ELSE <<"e","n","v">>) \o <<".">> \o e.key
         \o (IF e.optional THEN <<"?">> ELSE << >>)
         \o (IF e.default.none THEN << >> ELSE <<" ","|","|"," ">> \o e.default.text)
         \o <<"}">>

\* a mapping with an expression between two other entries
MappingAround(e) ==
    JObj(<<KV(<<"a">>, JStr(<<"l","i","t">>)), KV(<<"b">>, JStr(ExprText(e))),
           KV(<<"c">>, JStr(<<"{","a","r","g","s",".","l","i","m","i","t"," ","|","|"," ","2","5","}">>))>>)

\* an expression after literal text, and two expressions with text between
Embedded(e) == JStr(<<"l","i","m","i","t","=">> \o ExprText(e))
Paired(e) == JStr(ExprText(e) \o <<"&">> \o <<"{","a","r","g","s",".","l","i","m","i","t"," ","|","|"," ","2","5","}">>)

\* values without an expression: plain text, text with braces that is not an
\* expression, and mappings and sequences of literals nested in each other
ExpressionFree ==
    { JStr(<<"p","l","a","i","n">>), JStr(<<"a","{","b","}","c">>), JStr(<<"{","a","r","g","s","}">>), JStr(<<"{","a","r","g","s",".","}">>), JStr(<<"{"," ","a","r","g","s",".","x"," ","}">>),
      JStr(<<"{","A","R","G","S",".","x","}">>), JStr(<<"{","a","r","g","s",".","9","x","}">>), JStr(<<"{","a","r","g",".","x","}">>), JStr(<<"{","a","r","g","s",".","x">>), JStr(<<"{","a","r","g","s",".","x"," ","|"," ","5","}">>),
      JStr(<<"{","a","r","g","s",".","x"," ","?"," ","}">>), JStr(<<"{","a","r","g","s",".","x"," ","|","|","}">>), JStr(<<"{","e","n","v",".","x",".","y","}">>), JStr(<<"$","{","a","r","g","s","-","x","}">>),
      JObj(<< >>),
      JObj(<<KV(<<"a">>, JNum(1)), KV(<<"b">>, JStr(<<"s">>)), KV(<<"c">>, JNull), KV(<<"d">>, JBool(TRUE)),
             KV(<<"e">>, JFrac(1, <<"5">>)), KV(<<"f">>, JStr(<< >>))>>),
      JObj(<<KV(<<"f">>, JArr(<<JNum(1), JStr(<<"{","x","}">>), JArr(<<JNull>>), JObj(<<KV(<<"g">>, JStr(<<"x">>))>>)>>)),
             KV(<<"h">>, JObj(<<KV(<<"i">>, JObj(<<KV(<<"j">>, JArr(<< >>))>>))>>)),
             KV(<<"k">>, JObj(<< >>))>>),
      JObj(<<KV(<<"c","o","n","s","t","r","u","c","t","o","r">>, JStr(<<"r","b">>)), KV(<<"x">>, JObj(<<KV(<<"x">>, JArr(<<JBool(FALSE), JNum(0)>>))>>))>>) }

\* the expression {env.NEST}, whose value is text that looks like an expression
NestExpr == [ns |-> "env", key |-> <<"N","E","S","T">>, optional |-> FALSE, default |-> NoDefault]

\* optional expressions inside a sequence, and inside a mapping of a mapping
SequenceTemplates ==
    { JObj(<<KV(<<"t","a","g","s">>, JArr(<<JStr(<<"{","a","r","g","s",".","x","?","}">>), JStr(<<"l","i","t">>)>>))>>),
      JArr(<<JObj(<<KV(<<"a">>, JStr(<<"{","a","r","g","s",".","x","?","}">>))>>), JStr(<<"{","a","r","g","s",".","l","i","m","i","t","?","}">>)>>) }
NestedMappingTemplate ==
    JObj(<<KV(<<"o","u","t","e","r">>, JObj(<<KV(<<"i","n","n","e","r">>, JStr(<<"{","a","r","g","s",".","x","?","}">>)), KV(<<"k","e","p","t">>, JNum(1))>>)),
           KV(<<"o","p","t">>, JStr(<<"{","e","n","v",".","M","I","S","S","I","N","G","?","}">>))>>)

BindTemplates ==
    ExpressionFree \cup { JStr(ExprText(NestExpr)), Embedded(NestExpr), Paired(NestExpr) }
    \cup SequenceTemplates \cup {NestedMappingTemplate} \cup
    { JStr(ExprText(e)) : e \in Expressions }
    \cup { MappingAround(e) : e \in { x \in Expressions : x.default.none } }
    \cup { Embedded(e) : e \in { x \in Expressions : x.default.none \/ x.default.value = JNum(25) } }
    \cup { Paired(e) : e \in { x \in Expressions : x.default.none /\ x.ns = "args" } }

BindTool(template) ==
    [ToolOf(<<"b","i","n","d">>, "POST", <<"/","b">>, SchemaOf("object")) EXCEPT
        !.headers = JObj(<<KV(<<"x","-","o","p","t">>, JStr(<<"{","a","r","g","s",".","x","?","}">>)), KV(<<"a","c","c","e","p","t">>, JStr(<<"j","s","o","n">>))>>),
        !.queryParams = JObj(<<KV(<<"q">>, JStr(<<"{","a","r","g","s",".","l","i","m","i","t","?","}">>)), KV(<<"k">>, JStr(<<"{","e","n","v",".","K","E","Y","?","}">>))>>),
        !.bodyTemplate = template]

BindArgs ==
    { JObj(<< >>),
      JObj(<<KV(<<"l","i","m","i","t">>, JNum(10))>>),
      JObj(<<KV(<<"l","i","m","i","t">>, JNull), KV(<<"x">>, JStr(<<"a"," ","b">>))>>),
      JObj(<<KV(<<"x">>, JNum(25))>>),
      JObj(<<KV(<<"x">>, JStr(<< >>)), KV(<<"K","E","Y">>, JStr(<<"m","i","n","e">>)), KV(<<"l","i","m","i","t">>, JNum(0))>>),
      JObj(<<KV(<<"x">>, JBool(FALSE)), KV(<<"c","o","n","s","t","r","u","c","t","o","r">>, JStr(<<"r","b">>))>>),
      JObj(<<KV(<<"x">>, JArr(<<JNum(1), JStr(<<"b">>)>>)), KV(<<"l","i","m","i","t">>, JObj(<< >>))>>),
      JObj(<<KV(<<"x">>, JStr(<<"{","e","n","v",".","K","E","Y","}">>)), KV(<<"l","i","m","i","t">>, JStr(<<"{","a","r","g","s",".","x","}">>))>>),
      JObj(<<KV(<<"x">>, JStr(<<"a","{","a","r","g","s",".","x","}","b">>)), KV(<<"l","i","m","i","t">>, JStr(<<"{","e","n","v",".","K","E","Y","?","}">>)),
             KV(<<"K","E","Y">>, JStr(<<"{","a","r","g","s",".","l","i","m","i","t"," ","|","|"," ","2","5","}">>))>>) }

NextBind ==
    \/ \E template \in BindTemplates : LoadConfig([tools |-> <<BindTool(template)>>])
    \/ \E args \in BindArgs : CallTool(1, CallOf("testTool", <<"b","i","n","d">>, args))
    \/ ResumeExecuteRequest(1)
    \/ \E outcome \in {o \in TransportOutcomes : o.ok} : TransportSettles(1, outcome)

SpecBind == Init /\ [][NextBind]_vars

(***************************************************************************)
(* The request builder on its own: tools that differ in path, pathParams,  *)
(* queryParams, method and bodyTemplate, each called with arguments that   *)
(* are present, absent, null, empty, 0 or false.                           *)
(***************************************************************************)
UsersById ==
    [ToolOf(<<"b","u","i","l","d">>, "GET", <<"/","u","s","e","r","s","/","{","i","d","}">>, SchemaOf("object")) EXCEPT
        !.pathParams = JObj(<<KV(<<"i","d">>, JStr(<<"{","a","r","g","s",".","u","s","e","r","_","i","d","}">>))>>)]

OrderOfUser ==
    [ToolOf(<<"b","u","i","l","d">>, "GET", <<"/","u","/","{","i","d","}","/","o","/","{","o","i","d","}">>, SchemaOf("object")) EXCEPT
        !.pathParams = JObj(<<KV(<<"i","d">>, JStr(<<"{","a","r","g","s",".","u","s","e","r","_","i","d","}">>)), KV(<<"o","i","d">>, JStr(<<"{","a","r","g","s",".","n"," ","|","|"," ","7","}">>))>>)]

\* a path that names one parameter twice
FriendOfUser ==
    [ToolOf(<<"b","u","i","l","d">>, "GET", <<"/","u","/","{","i","d","}","/","f","/","{","i","d","}">>, SchemaOf("object")) EXCEPT
        !.pathParams = JObj(<<KV(<<"i","d">>, JStr(<<"{","a","r","g","s",".","u","s","e","r","_","i","d","}">>))>>)]

\* an optional path parameter, and a pathParams entry that the path does not use
OptionalId ==
    [ToolOf(<<"b","u","i","l","d">>, "DELETE", <<"/","u","/","{","i","d","}">>, SchemaOf("object")) EXCEPT
        !.pathParams = JObj(<<KV(<<"i","d">>, JStr(<<"{","a","r","g","s",".","u","s","e","r","_","i","d","?","}">>)), KV(<<"e","x","t","r","a">>, JStr(<<"{","a","r","g","s",".","n","}">>))>>)]

PathTools == { UsersById, OrderOfUser, FriendOfUser, OptionalId }

Search ==
    [ToolOf(<<"b","u","i","l","d">>, "GET", <<"/","q">>, SchemaOf("object")) EXCEPT
        !.queryParams = JObj(<<KV(<<"a">>, JStr(<<"{","a","r","g","s",".","a","}">>)), KV(<<"b">>, JStr(<<"{","a","r","g","s",".","b","?","}">>)),
                               KV(<<"c">>, JStr(<<"{","a","r","g","s",".","c"," ","|","|"," ","0","}">>)), KV(<<"d">>, JStr(<<"l","i","t">>)),
                               KV(<<"e">>, JStr(<< >>)), KV(<<"f">>, JStr(<<"{","a","r","g","s",".","m","i","s","s","i","n","g","}">>))>>)]

Methods == { "GET", "POST", "PUT", "PATCH", "DELETE" }

BodyTemplate == JObj(<<KV(<<"n","a","m","e">>, JStr(<<"{","a","r","g","s",".","u","s","e","r","_","i","d","}">>)), KV(<<"n">>, JStr(<<"{","a","r","g","s",".","n"," ","|","|"," ","7","}">>))>>)

BodyTools ==
    { [ToolOf(<<"b","u","i","l","d">>, method, <<"/","r">>, SchemaOf("object")) EXCEPT !.bodyTemplate = template] :
        method \in Methods, template \in {JUndef, BodyTemplate} }

BuildTools == PathTools \cup {Search} \cup BodyTools

PathArgs ==
    { JObj(SelectSeq(<<KV(<<"u","s","e","r","_","i","d">>, u), KV(<<"n">>, n)>>, LAMBDA entry : entry.v # Absent)) :
        u \in { Absent, JStr(<<"a"," ","b">>), JStr(<<"z","e","d">>), JNull, JStr(<<"x","/","{","i","d","}","&">>), JNum(0), JStr(<< >>) },
        n \in { Absent, JNum(5) } }

QueryArgs ==
    { JObj(SelectSeq(<<KV(<<"a">>, a), KV(<<"b">>, b), KV(<<"c">>, c)>>, LAMBDA entry : entry.v # Absent)) :
        a \in { Absent, JNull, JStr(<< >>), JNum(0), JBool(FALSE), JStr(<<"x">>) },
        b \in { Absent, JStr(<< >>), JStr(<<"y">>) },
        c \in { Absent, JNull, JNum(3) } }

BuildArgs == PathArgs \cup QueryArgs

NextBuild ==
    \/ \E tool \in BuildTools : LoadConfig([tools |-> <<tool>>])
    \/ \E args \in BuildArgs : CallTool(1, CallOf("testTool", <<"b","u","i","l","d">>, args))
    \/ ResumeExecuteRequest(1)
    \/ \E outcome \in TransportOutcomes : TransportSettles(1, outcome)

SpecBuild == Init /\ [][NextBuild]_vars

(***************************************************************************)
(* The response transform on its own: tools that differ in their           *)
(* responseTransform path, and response bodies in which the path is there, *)
(* is missing at its first or at a later segment, or runs into null, a     *)
(* number, a text or a sequence.                                           *)
(***************************************************************************)
TransformPaths ==
    { <<"d","a","t","a",".","i","d">>, <<"d","a","t","a">>, <<"i","d">>, <<"d","a","t","a",".","i","t","e","m","s",".","0",".","i","d">>, <<"d","a","t","a",".","i","d",".","x">>, <<"c","o","n","s","t","r","u","c","t","o","r">>,
      <<"d","a","t","a",".","c","o","n","s","t","r","u","c","t","o","r",".","n","a","m","e">> }

ProjectTool(path) ==
    [ToolOf(<<"p","r","o","j","e","c","t">>, "GET", <<"/","p">>, SchemaOf("object")) EXCEPT !.responseTransform = JStr(path)]

ResponseBodies ==
    { JObj(<<KV(<<"d","a","t","a">>, JObj(<<KV(<<"i","d">>, JNum(7))>>))>>),
      JObj(<<KV(<<"i","d">>, JNum(7))>>),
      JObj(<<KV(<<"d","a","t","a">>, JNull)>>),
      JObj(<<KV(<<"d","a","t","a">>, JObj(<<KV(<<"i","t","e","m","s">>, JArr(<<JObj(<<KV(<<"i","d">>, JNum(1))>>),
                                                     JObj(<<KV(<<"i","d">>, JNum(2))>>)>>)),
                                KV(<<"i","d">>, JNull)>>))>>),
      JObj(<<KV(<<"d","a","t","a">>, JObj(<<KV(<<"i","t","e","m","s">>, JArr(<< >>)), KV(<<"i","d">>, JObj(<<KV(<<"x">>, JBool(FALSE))>>))>>))>>),
      JObj(<<KV(<<"d","a","t","a">>, JObj(<<KV(<<"c","o","n","s","t","r","u","c","t","o","r">>, JObj(<<KV(<<"n","a","m","e">>, JStr(<<"r","b">>))>>))>>))>>),
      JObj(<<KV(<<"c","o","n","s","t","r","u","c","t","o","r">>, JStr(<<"r","b">>)), KV(<<"i","d">>, JNum(0))>>),
      JStr(<<"t","e","x","t">>),
      JArr(<<JNum(1)>>),
      JNull }

ProjectOutcomes ==
    { [ok |-> TRUE, response |-> ResponseOf(200, <<"O","K">>, body)] : body \in ResponseBodies }
    \cup { o \in TransportOutcomes : ~o.ok }

NextProject ==
    \/ \E path \in TransformPaths : LoadConfig([tools |-> <<ProjectTool(path)>>])
    \/ \E via \in {"handler", "testTool"} : CallTool(1, CallOf(via, <<"p","r","o","j","e","c","t">>, JObj(<< >>)))
    \/ ResumeExecuteRequest(1)
    \/ \E outcome \in ProjectOutcomes : TransportSettles(1, outcome)

SpecProject == Init /\ [][NextProject]_vars

(***************************************************************************)
(* The log of a request on its own: tools that differ in the name of one   *)
(* configured header, and answers that differ in the name of one response  *)
(* header.  The names are the sensitive ones in three spellings and names  *)
(* that are not sensitive.                                                 *)
(***************************************************************************)
RequestHeaderNames ==
    { <<"a","u","t","h","o","r","i","z","a","t","i","o","n">>, <<"A","u","t","h","o","r","i","z","a","t","i","o","n">>, <<"A","U","T","H","O","R","I","Z","A","T","I","O","N">>,
      <<"x","-","a","p","i","-","k","e","y">>, <<"X","-","A","p","i","-","K","e","y">>, <<"X","-","A","P","I","-","K","E","Y">>,
      <<"x","-","a","u","t","h","-","t","o","k","e","n">>, <<"X","-","A","u","t","h","-","T","o","k","e","n">>,
      <<"c","o","o","k","i","e">>, <<"C","o","o","k","i","e">>, <<"C","O","O","K","I","E">>,
      <<"a","c","c","e","p","t">>, <<"x","-","a","p","i","-","k","e","y","s">>, <<"X","-","R","e","q","u","e","s","t","-","I","d">>, <<"a","u","t","h","o","r","i","s","a","t","i","o","n">> }

ResponseHeaderNames ==
    { <<"s","e","t","-","c","o","o","k","i","e">>, <<"S","e","t","-","C","o","o","k","i","e">>, <<"S","E","T","-","C","O","O","K","I","E">>, <<"x","-","a","u","t","h","-","t","o","k","e","n">>, <<"e","t","a","g">>, <<"C","o","o","k","i","e","s">> }

LogTool(headers) ==
    [ToolOf(<<"l","o","g">>, "GET", <<"/","l">>, SchemaOf("object")) EXCEPT !.headers = headers]

LogTools ==
    { LogTool(JObj(<<KV(name, JStr(<<"{","e","n","v",".","K","E","Y","}">>)), KV(<<"u","s","e","r","-","a","g","e","n","t">>, JStr(<<"m","c","p">>))>>)) :
        name \in RequestHeaderNames }
    \cup { LogTool(JUndef) }

ResponseWith(status, statusText, name) ==
    [ResponseOf(status, statusText, JObj(<<KV(<<"i","d">>, JNum(7))>>)) EXCEPT
        !.headers = JObj(<<KV(<<"c","o","n","t","e","n","t","-","t","y","p","e">>, JStr(<<"j","s","o","n">>)), KV(name, JStr(<<"s","i","d","=","1">>))>>)]

LogOutcomes ==
    { [ok |-> TRUE, response |-> ResponseWith(200, <<"O","K">>, name)] : name \in ResponseHeaderNames }
    \cup { [ok |-> FALSE,
            error |-> AxiosError("ERR_BAD_REQUEST", ResponseWith(401, <<"U","n","a","u","t","h","o","r","i","z","e","d">>, name), TRUE)] :
            name \in ResponseHeaderNames }
    \cup { o \in TransportOutcomes : ~o.ok }

NextLog ==
    \/ \E tool \in LogTools : LoadConfig([tools |-> <<tool>>])
    \/ \E via \in {"handler", "testTool"} : CallTool(1, CallOf(via, <<"l","o","g">>, JObj(<< >>)))
    \/ ResumeExecuteRequest(1)
    \/ \E outcome \in LogOutcomes : TransportSettles(1, outcome)

SpecLog == Init /\ [][NextLog]_vars

(***************************************************************************)
(* Properties.                                                             *)
(***************************************************************************)
\* the ToolDefinition registered under the name of call c
DefinitionOf(c) == MapGet(tools, calls[c].name).definition

\* whether call c has arrived and names a registered tool
Found(c) == calls[c].pc # "idle" /\ HasOwn(tools, calls[c].name)

\* whether call c has run the stage at position k of StageOrder
Ran(c, k) == Len(calls[c].stages) >= k

\* whether call c has ended in a failure whose message starts with prefix
FailedWith(c, prefix) ==
    /\ calls[c].pc = "done"
    /\ ~calls[c].outcome.ok
    /\ StartsWithAt(calls[c].outcome.message, prefix, 1)

\* C1: the stages of every call are an initial part of Lookup,
\* RequiredArgsCheck, TypeValidate, Build, Execute, ProjectResponse, in that
\* order; only the last stage a call has run can have failed; and a request
\* is out only after Build succeeded.
C1_StagesInOrder ==
    \A c \in CallIds :
        /\ Len(calls[c].stages) <= Len(StageOrder)
        /\ \A k \in 1..Len(calls[c].stages) : calls[c].stages[k].stage = StageOrder[k]
        /\ \A k \in 1..(Len(calls[c].stages) - 1) : calls[c].stages[k].ok
        /\ calls[c].sent # << >> => Ran(c, 4) /\ calls[c].stages[4].ok

\* C1 happens: one call ran all six stages, another ended at a failed
\* TypeValidate
C1_Witness ==
    \E c, d \in CallIds :
        /\ calls[c].pc = "done" /\ Ran(c, 6)
        /\ calls[d].pc = "done" /\ Len(calls[d].stages) = 3 /\ ~calls[d].stages[3].ok

\* C2: a request is sent only for a call whose arguments have no missing
\* required argument and no type violation and whose url has no placeholder
\* left; a call that ended with a validation or binding failure sent nothing.
C2_NoSendAfterValidationOrBindingFailure ==
    \A c \in CallIds :
        /\ calls[c].sent # << >> =>
              /\ Found(c)
              /\ validateRequiredArguments(DefinitionOf(c), calls[c].args) = << >>
              /\ validateArgumentTypes(DefinitionOf(c), calls[c].args) = << >>
              /\ \A k \in 1..Len(calls[c].sent) : MatchPlaceholders(calls[c].sent[k].url, 1) = << >>
        /\ \/ FailedWith(c, <<"V","a","l","i","d","a","t","i","o","n"," ","f","a","i","l","e","d",":"," ">>)
           \/ FailedWith(c, <<"T","y","p","e"," ","v","a","l","i","d","a","t","i","o","n"," ","f","a","i","l","e","d",":"," ">>)
           \/ FailedWith(c, <<"P","a","r","a","m","e","t","e","r"," ","b","i","n","d","i","n","g"," ","e","r","r","o","r",":"," ">>)
           => calls[c].sent = << >>

\* C2 happens: one call ended with a binding failure, another with a
\* validation failure
C2_Witness ==
    \E c, d \in CallIds :
        /\ FailedWith(c, <<"P","a","r","a","m","e","t","e","r"," ","b","i","n","d","i","n","g"," ","e","r","r","o","r",":"," ">>)
        /\ FailedWith(d, <<"V","a","l","i","d","a","t","i","o","n"," ","f","a","i","l","e","d",":"," ">>) \/ FailedWith(d, <<"T","y","p","e"," ","v","a","l","i","d","a","t","i","o","n"," ","f","a","i","l","e","d",":"," ">>)

\* C3: a call sends at most one request, also when the transport failed.
C3_AtMostOneSend ==
    \A c \in CallIds :
        /\ Len(calls[c].sent) <= 1
        /\ calls[c].pc = "done" /\ Ran(c, 5) => Len(calls[c].sent) = 1

\* C3 happens: a call whose request the transport failed has ended
C3_Witness ==
    \E c \in CallIds :
        /\ calls[c].pc = "done"
        /\ Len(calls[c].stages) = 5 /\ ~calls[c].stages[5].ok
        /\ calls[c].result.success = FALSE

\* the request call c builds when it runs alone: from its own arguments and
\* the environment only
BuiltAlone(c) ==
    buildRequestConfig(DefinitionOf(c), [args |-> calls[c].args, env |-> ProcessEnv])

\* C4: whatever the other calls are doing, the request a call built, and the
\* one it sent, is the request it builds alone.
C4_BuildsAsAlone ==
    \A c \in CallIds :
        Ran(c, 4) =>
            /\ calls[c].built.ok = BuiltAlone(c).ok
            /\ calls[c].built.ok => calls[c].built.config = BuiltAlone(c).config
            /\ \A k \in 1..Len(calls[c].sent) : calls[c].sent[k] = BuiltAlone(c).config

\* C4 happens: two calls to one tool with different arguments have their
\* requests out together
C4_Witness ==
    \E c, d \in CallIds :
        /\ c # d
        /\ calls[c].pc = "sent" /\ calls[d].pc = "sent"
        /\ calls[c].name = calls[d].name
        /\ calls[c].args # calls[d].args
        /\ calls[c].sent # calls[d].sent

\* C5: a step of a call leaves the registry's table, and with it every
\* registered definition, as it was.
C5_CallLeavesRegistryUnchanged == [][calls' # calls => tools' = tools]_vars

\* C5 happens: a call that succeeded and a call that failed have ended, and
\* the registry is the one the configuration was loaded into
C5_Witness ==
    /\ \E c, d \in CallIds :
          /\ calls[c].pc = "done" /\ calls[c].outcome.ok
          /\ calls[d].pc = "done" /\ ~calls[d].outcome.ok
    /\ tools = registerToolsFromConfig(serverConfig).tools

\* whether a placeholder of the tool's path has no pathParams entry
HasUnboundPlaceholder(tool) ==
    \E k \in 1..Len(extractPathPlaceholders(tool.path)) :
        \/ ~Truthy(tool.pathParams)
        \/ ~HasOwn(tool.pathParams, extractPathPlaceholders(tool.path)[k])

\* C6: a configuration with a tool whose path has a placeholder without a
\* pathParams entry does not start the server and no call is served; no such
\* tool is registered in a running server, and none reaches Build.
C6_UnboundPlaceholderRejected ==
    /\ (\E i \in 1..Len(serverConfig.tools) : HasUnboundPlaceholder(serverConfig.tools[i]))
          => server = "exited" /\ \A c \in CallIds : calls[c].pc = "idle"
    /\ server = "running"
          => \A i \in 1..Len(tools.e) : ~HasUnboundPlaceholder(tools.e[i].v.definition)
    /\ \A c \in CallIds : Ran(c, 4) => ~HasUnboundPlaceholder(calls[c].context.tool)

\* C6 happens: the configuration with the unbound placeholder was loaded
C6_Witness ==
    /\ serverConfig = UnboundPathConfig
    /\ HasUnboundPlaceholder(serverConfig.tools[2])
    /\ server = "exited"

\* what a ListTools request is answered
Listed == IF server = "running" THEN getMcpTools(tools) ELSE << >>

\* whether two tools of the configuration have one name
HasDuplicateNames(loaded) ==
    \E i, j \in 1..Len(loaded.tools) : i # j /\ loaded.tools[i].name = loaded.tools[j].name

\* C7: a configuration with two tools of one name does not start the
\* server: no tool is listed and no call is served.
C7_DuplicateNamesRejected ==
    HasDuplicateNames(serverConfig)
        => /\ server = "exited"
           /\ Listed = << >>
           /\ \A c \in CallIds : calls[c].pc = "idle"

\* C7 happens: the configuration with the duplicate name was loaded
C7_Witness ==
    /\ serverConfig = DuplicateConfig
    /\ HasDuplicateNames(serverConfig)
    /\ server = "exited"
    /\ tools = EmptyRegistry

\* Tool "name" not found
NotFoundMessage(name) == <<"T","o","o","l"," ">> \o DoubleQuote \o name \o DoubleQuote \o <<" ","n","o","t"," ","f","o","u","n","d">>

\* C8: a call to a name that is not registered ends at a failed Lookup, with
\* no other stage and no request, with the not-found message and, through
\* the handler, the MethodNotFound code; a validation failure has another
\* message and another code.
C8_UnknownToolFailsAtLookup ==
    \A c \in CallIds :
        /\ calls[c].pc # "idle" /\ ~HasOwn(tools, calls[c].name) =>
              /\ calls[c].pc = "done"
              /\ calls[c].stages = <<Stage("Lookup", FALSE)>>
              /\ calls[c].sent = << >>
              /\ ~calls[c].outcome.ok
              /\ calls[c].outcome.message = NotFoundMessage(calls[c].name)
              /\ calls[c].via = "handler" => calls[c].outcome.code = CodeMethodNotFound
        /\ FailedWith(c, <<"V","a","l","i","d","a","t","i","o","n"," ","f","a","i","l","e","d",":"," ">>) \/ FailedWith(c, <<"T","y","p","e"," ","v","a","l","i","d","a","t","i","o","n"," ","f","a","i","l","e","d",":"," ">>) =>
              /\ calls[c].outcome.message # NotFoundMessage(calls[c].name)
              /\ calls[c].outcome.code # CodeMethodNotFound

\* C8 happens: a call to an unknown name and a call with a validation
\* failure have ended, both through the handler
C8_Witness ==
    \E c, d \in CallIds :
        /\ calls[c].pc = "done" /\ calls[c].via = "handler" /\ ~HasOwn(tools, calls[c].name)
        /\ calls[d].via = "handler" /\ FailedWith(d, <<"V","a","l","i","d","a","t","i","o","n"," ","f","a","i","l","e","d",":"," ">>)

\* the names of inputSchema.required that the arguments do not hold, or hold
\* with null or undefined
MissingRequired(tool, args) ==
    IF tool.inputSchema.required = JUndef THEN << >>
    ELSE SelectSeq([i \in 1..Len(tool.inputSchema.required.a) |-> tool.inputSchema.required.a[i].s],
                   LAMBDA requiredField :
                       \/ ~HasOwn(args, requiredField)
                       \/ Get(args, requiredField) \in {JNull, JUndef})

\* C9: when required arguments are missing, the call ends at a failed
\* RequiredArgsCheck that reports every one of them, before any type
\* validation.
C9_EveryMissingRequiredReported ==
    \A c \in CallIds :
        Found(c) /\ MissingRequired(DefinitionOf(c), calls[c].args) # << >> =>
            /\ Len(calls[c].stages) = 2 /\ ~calls[c].stages[2].ok
            /\ calls[c].errors =
                  [i \in 1..Len(MissingRequired(DefinitionOf(c), calls[c].args)) |->
                      <<"M","i","s","s","i","n","g"," ","r","e","q","u","i","r","e","d"," ","a","r","g","u","m","e","n","t",":"," ">>
                      \o MissingRequired(DefinitionOf(c), calls[c].args)[i]]

RECURSIVE Violations(_, _, _)
\* every constraint of the schema that the value violates, as the message of
\* its violation: the type, each of minLength, maxLength, pattern, enum,
\* minimum and maximum, and those of every array element and every declared
\* property of a nested object.  A minLength or maxLength of 0 is no
\* constraint: validateValueType passes over it.
Violations(value, schema, fieldName) ==
    IF value.t \in {"undefined", "null"} THEN << >>
    ELSE
    CASE schema.type = "string" ->
            IF value.t # "string"
            THEN <<fieldName \o <<" ","m","u","s","t"," ","b","e"," ","a"," ","s","t","r","i","n","g",","," ","g","o","t"," ">> \o TypeOfText(value)>>
            ELSE (IF schema.minLength # JUndef /\ schema.minLength.n # 0
                     /\ Len(value.s) < schema.minLength.n
                  THEN <<fieldName \o <<" ","m","u","s","t"," ","b","e"," ","a","t"," ","l","e","a","s","t"," ">> \o StringOf(schema.minLength)
                         \o <<" ","c","h","a","r","a","c","t","e","r","s"," ","l","o","n","g">>>>
                  ELSE << >>)
              \o (IF schema.maxLength # JUndef /\ schema.maxLength.n # 0
                     /\ Len(value.s) > schema.maxLength.n
                  THEN <<fieldName \o <<" ","m","u","s","t"," ","b","e"," ","a","t"," ","m","o","s","t"," ">> \o StringOf(schema.maxLength)
                         \o <<" ","c","h","a","r","a","c","t","e","r","s"," ","l","o","n","g">>>>
                  ELSE << >>)
              \o (IF schema.pattern # JUndef /\ ~RegExpTest(schema.pattern.s, value.s)
                  THEN <<fieldName \o <<" ","d","o","e","s"," ","n","o","t"," ","m","a","t","c","h"," ","r","e","q","u","i","r","e","d"," ","p","a","t","t","e","r","n">>>>
                  ELSE << >>)
              \o (IF schema.enum # JUndef /\ ~ArrayIncludes(schema.enum, value)
                  THEN <<fieldName \o <<" ","m","u","s","t"," ","b","e"," ","o","n","e"," ","o","f",":"," ">> \o JoinValues(schema.enum)>>
                  ELSE << >>)
      [] schema.type \in {"number", "integer"} ->
            IF value.t # "number" \/ (schema.type = "integer" /\ value.f # << >>)
            THEN <<fieldName \o <<" ","m","u","s","t"," ","b","e"," ","a"," ">> \o TypeNameText(schema.type)>>
            ELSE (IF schema.minimum # JUndef /\ NumLess(value, schema.minimum)
                  THEN <<fieldName \o <<" ","m","u","s","t"," ","b","e"," ","a","t"," ","l","e","a","s","t"," ">> \o StringOf(schema.minimum)>>
                  ELSE << >>)
              \o (IF schema.maximum # JUndef /\ NumGreater(value, schema.maximum)
                  THEN <<fieldName \o <<" ","m","u","s","t"," ","b","e"," ","a","t"," ","m","o","s","t"," ">> \o StringOf(schema.maximum)>>
                  ELSE << >>)
              \o (IF schema.enum # JUndef /\ ~ArrayIncludes(schema.enum, value)
                  THEN <<fieldName \o <<" ","m","u","s","t"," ","b","e"," ","o","n","e"," ","o","f",":"," ">> \o JoinValues(schema.enum)>>
                  ELSE << >>)
      [] schema.type = "boolean" ->
            IF value.t # "boolean"
            THEN <<fieldName \o <<" ","m","u","s","t"," ","b","e"," ","a"," ","b","o","o","l","e","a","n",","," ","g","o","t"," ">> \o TypeOfText(value)>>
            ELSE << >>
      [] schema.type = "array" ->
            IF value.t # "array"
            THEN <<fieldName \o <<" ","m","u","s","t"," ","b","e"," ","a","n"," ","a","r","r","a","y",","," ","g","o","t"," ">> \o TypeOfText(value)>>
            ELSE IF schema.items = JUndef THEN << >>
            ELSE Flatten([i \in 1..Len(value.a) |->
                    Violations(value.a[i], schema.items,
                               fieldName \o <<"[">> \o NatToString(i - 1) \o <<"]">>)])
      [] schema.type = "object" ->
            IF value.t # "object"
            THEN <<fieldName \o <<" ","m","u","s","t"," ","b","e"," ","a","n"," ","o","b","j","e","c","t",","," ","g","o","t"," ">> \o TypeOfText(value)>>
            ELSE IF schema.properties = JUndef THEN << >>
            ELSE Flatten([i \in 1..Len(value.e) |->
                    IF ~HasOwn(schema.properties, value.e[i].k) THEN << >>
                    ELSE Violations(value.e[i].v, Get(schema.properties, value.e[i].k),
                                    fieldName \o <<".">> \o value.e[i].k)])
      [] OTHER -> << >>

\* the violations of each argument that has a declared property, in the
\* order of the arguments
ViolationsByArgument(toolDef, args) ==
    IF toolDef.inputSchema.properties = JUndef THEN << >>
    ELSE [i \in 1..Len(args.e) |->
            IF ~HasOwn(toolDef.inputSchema.properties, args.e[i].k) THEN << >>
            ELSE Violations(args.e[i].v, Get(toolDef.inputSchema.properties, args.e[i].k),
                            args.e[i].k)]

HasViolationFor(c, name) ==
    \E k \in 1..Len(calls[c].errors) : StartsWithAt(calls[c].errors[k], name \o <<" ","m","u","s","t"," ">>, 1)

\* C11: for an argument declared {type: integer, minimum: lo, maximum: hi}
\* and passed with a value other than null, type validation accepts the
\* value exactly when it is a whole number v with lo <= v <= hi; both bounds
\* are inclusive, and a number with a fractional part is rejected also when
\* it lies inside the range.  (A null value is not type-checked at all.)
C11_IntegerRangeInclusive ==
    \A c \in CallIds :
        Ran(c, 3) =>
            \A i \in 1..Len(calls[c].args.e) :
                LET name   == calls[c].args.e[i].k
                    v      == calls[c].args.e[i].v
                    schema == MapGet(DefinitionOf(c).inputSchema.properties, name)
                IN  /\ HasOwn(DefinitionOf(c).inputSchema.properties, name)
                    /\ schema.type = "integer"
                    /\ schema.minimum # JUndef /\ schema.maximum # JUndef
                    /\ v # JNull
                    => (~HasViolationFor(c, name)
                          <=> /\ v.t = "number" /\ v.f = << >>
                              /\ schema.minimum.n <= v.n /\ v.n <= schema.maximum.n)

\* C11 happens: a call passed type validation with an integer argument equal
\* to the minimum of its declared range
C11_Witness ==
    \E c \in CallIds :
        /\ Ran(c, 3) /\ calls[c].stages[3].ok
        /\ \E i \in 1..Len(calls[c].args.e) :
              LET name == calls[c].args.e[i].k
                  v    == calls[c].args.e[i].v
              IN  /\ HasOwn(DefinitionOf(c).inputSchema.properties, name)
                  /\ MapGet(DefinitionOf(c).inputSchema.properties, name).type = "integer"
                  /\ MapGet(DefinitionOf(c).inputSchema.properties, name).minimum = v

\* whether call c has built its request
Built(c) == calls[c].built # JUndef /\ calls[c].built.ok

\* the value a namespace holds for a key: undefined when it has no such key
ValueIn(namespace, key) == IF HasOwn(namespace, key) THEN MapGet(namespace, key) ELSE JUndef

\* the value of expression e by the priority rule: the value of the key in
\* its namespace when defined, else the default literal when one is written,
\* else the omit marker when the expression is optional, else undefined
ValueByPriority(e, args, env) ==
    IF ValueIn(IF e.ns = "args" THEN args ELSE env, e.key) # JUndef
    THEN ValueIn(IF e.ns = "args" THEN args ELSE env, e.key)
    ELSE IF ~e.default.none THEN e.default.value
    ELSE IF e.optional THEN OMIT_MARKER
    ELSE JUndef

\* C12: a template that is one expression resolves by strict priority: the
\* value the key has in its namespace (args or env) when it has one, whatever
\* default or optional flag is written; otherwise the default literal;
\* otherwise the omit marker when the expression is optional; otherwise
\* undefined.
C12_ResolvesByPriority ==
    \A c \in CallIds :
        Built(c) =>
            \A e \in Expressions :
                DefinitionOf(c).bodyTemplate = JStr(ExprText(e))
                => calls[c].built.config.data = ValueByPriority(e, calls[c].args, ProcessEnv)

\* the priority rule of C12 for the keys that Object.prototype does not
\* define
C12_PriorityForOwnNames ==
    \A c \in CallIds :
        Built(c) =>
            \A e \in Expressions :
                /\ DefinitionOf(c).bodyTemplate = JStr(ExprText(e))
                /\ e.key \notin ObjectPrototypeKeys
                => calls[c].built.config.data = ValueByPriority(e, calls[c].args, ProcessEnv)

\* {args.limit || 25} was resolved to the integer 25 for a call without limit
C12_Witness ==
    \E c \in CallIds :
        /\ Built(c)
        /\ DefinitionOf(c).bodyTemplate = JStr(<<"{","a","r","g","s",".","l","i","m","i","t"," ","|","|"," ","2","5","}">>)
        /\ ~HasOwn(calls[c].args, <<"l","i","m","i","t">>)
        /\ calls[c].built.config.data = JNum(25)

\* the expression {args.limit || 25} of MappingAround
LimitOr25 == [ns |-> "args", key |-> <<"l","i","m","i","t">>, optional |-> FALSE, default |-> DefaultOf(<<"2","5">>, JNum(25))]

\* C13: when the value of a mapping entry is exactly an optional expression
\* {args.NAME?} and the arguments have no NAME, the resolved mapping has no
\* such entry at all, and every other entry is kept with its resolved value.
C13_AbsentOptionalOmitsKey ==
    \A c \in CallIds :
        Built(c) =>
            \A e \in Expressions :
                /\ e.ns = "args" /\ e.optional /\ e.default.none
                /\ DefinitionOf(c).bodyTemplate = MappingAround(e)
                /\ ~HasOwn(calls[c].args, e.key)
                => calls[c].built.config.data =
                      JObj(<<KV(<<"a">>, JStr(<<"l","i","t">>)),
                             KV(<<"c">>, ValueByPriority(LimitOr25, calls[c].args, ProcessEnv))>>)

\* the omission of C13 for the names that Object.prototype does not define
C13_OmitsKeyForOwnNames ==
    \A c \in CallIds :
        Built(c) =>
            \A e \in Expressions :
                /\ e.ns = "args" /\ e.optional /\ e.default.none
                /\ e.key \notin ObjectPrototypeKeys
                /\ DefinitionOf(c).bodyTemplate = MappingAround(e)
                /\ ~HasOwn(calls[c].args, e.key)
                => calls[c].built.config.data =
                      JObj(<<KV(<<"a">>, JStr(<<"l","i","t">>)),
                             KV(<<"c">>, ValueByPriority(LimitOr25, calls[c].args, ProcessEnv))>>)

\* a mapping with {args.x?} was resolved for a call without x: the body has
\* the two other entries only
C13_Witness ==
    \E c \in CallIds :
        /\ Built(c)
        /\ \E e \in Expressions :
              /\ e.ns = "args" /\ e.optional /\ e.default.none /\ e.key = <<"x">>
              /\ DefinitionOf(c).bodyTemplate = MappingAround(e)
        /\ ~HasOwn(calls[c].args, <<"x">>)
        /\ Keys(calls[c].built.config.data) = <<<<"a">>, <<"c">>>>

\* C14: a string that is exactly one expression resolves to the value the
\* expression is bound to, with its native type (the integer 25 stays the
\* integer 25); a string with an expression and literal text always resolves
\* to a string, in which each expression is replaced by the string form of
\* its value ("limit={args.x}" with x = 25 gives "limit=25").
C14_SingleNativeEmbeddedString ==
    \A c \in CallIds :
        Built(c) =>
            \A e \in Expressions :
                LET template == DefinitionOf(c).bodyTemplate
                    data     == calls[c].built.config.data
                    bound    == ValueIn(IF e.ns = "args" THEN calls[c].args ELSE ProcessEnv, e.key)
                IN  /\ template = JStr(ExprText(e)) /\ bound # JUndef => data = bound
                    /\ template \in {Embedded(e), Paired(e)} => data.t = "string"
                    /\ template = Embedded(e) /\ bound # JUndef
                       => data = JStr(<<"l","i","m","i","t","=">> \o StringOf(bound))
                    /\ template = Paired(e) /\ bound # JUndef
                       => data = JStr(StringOf(bound) \o <<"&">>
                                    \o StringOf(ValueByPriority(LimitOr25, calls[c].args, ProcessEnv)))

\* C14 happens: "limit={args.x}" was resolved to the string "limit=25" for a
\* call with x = 25
C14_Witness ==
    \E c \in CallIds :
        /\ Built(c)
        /\ DefinitionOf(c).bodyTemplate = JStr(<<"l","i","m","i","t","=","{","a","r","g","s",".","x","}">>)
        /\ ValueIn(calls[c].args, <<"x">>) = JNum(25)
        /\ calls[c].built.config.data = JStr(<<"l","i","m","i","t","=","2","5">>)

\* "{args.x}" was resolved to the integer 25 for a call with x = 25
C14_WitnessNative ==
    \E c \in CallIds :
        /\ Built(c)
        /\ DefinitionOf(c).bodyTemplate = JStr(<<"{","a","r","g","s",".","x","}">>)
        /\ calls[c].built.config.data = JNum(25)

RECURSIVE ReplaceAll(_, _, _)
\* s with every occurrence of p replaced by r, from left to right
ReplaceAll(s, p, r) ==
    IF IndexOf(s, p) = 0 THEN s
    ELSE Slice(s, 1, IndexOf(s, p) - 1) \o r
         \o ReplaceAll(Slice(s, IndexOf(s, p) + Len(p), Len(s)), p, r)

\* the path with every {name} token of every entry replaced by the
\* percent-encoded value of the entry
PathWithAll(path, entries) ==
    LET F[i \in 0..Len(entries)] ==
            IF i = 0 THEN path
            ELSE ReplaceAll(F[i - 1], <<"{">> \o entries[i].k \o <<"}">>,
                            encodeURIComponent(StringOf(entries[i].v)))
    IN  F[Len(entries)]

\* the pathParams of the tool of call c, resolved for its arguments
ResolvedPathParams(c) ==
    resolve(NewParameterBinder(calls[c].args, ProcessEnv), DefinitionOf(c).pathParams)

\* whether every pathParams entry of call c resolves to a value that is
\* neither undefined nor null nor omitted
AllPathParamsDefined(c) ==
    /\ DefinitionOf(c).pathParams # JUndef
    /\ Keys(ResolvedPathParams(c)) = Keys(DefinitionOf(c).pathParams)
    /\ \A i \in 1..Len(ResolvedPathParams(c).e) :
          ResolvedPathParams(c).e[i].v \notin {JUndef, JNull}

\* C16: for a loaded tool and a call in which every pathParams entry
\* resolves to a defined, non-null value, Build succeeds and the built path
\* is the path with every {name} token, at each of its occurrences, replaced
\* by the percent-encoded value; no {...} token is left.
C16_EveryOccurrenceSubstituted ==
    \A c \in CallIds :
        calls[c].built # JUndef /\ AllPathParamsDefined(c) =>
            /\ calls[c].built.ok
            /\ calls[c].built.config.url = PathWithAll(DefinitionOf(c).path, ResolvedPathParams(c).e)
            /\ MatchPlaceholders(calls[c].built.config.url, 1) = << >>

\* the substitution of C16 for paths that name no parameter twice
C16_SubstitutedWhenNamedOnce ==
    \A c \in CallIds :
        /\ calls[c].built # JUndef /\ AllPathParamsDefined(c)
        /\ \A i, j \in 1..Len(extractPathPlaceholders(DefinitionOf(c).path)) :
              i # j => extractPathPlaceholders(DefinitionOf(c).path)[i]
                          # extractPathPlaceholders(DefinitionOf(c).path)[j]
        => /\ calls[c].built.ok
           /\ calls[c].built.config.url = PathWithAll(DefinitionOf(c).path, ResolvedPathParams(c).e)
           /\ MatchPlaceholders(calls[c].built.config.url, 1) = << >>

\* /users/{id} with id bound to "a b" was built as /users/a%20b
C16_Witness ==
    \E c \in CallIds :
        /\ Built(c)
        /\ DefinitionOf(c).path = <<"/","u","s","e","r","s","/","{","i","d","}">>
        /\ ValueIn(calls[c].args, <<"u","s","e","r","_","i","d">>) = JStr(<<"a"," ","b">>)
        /\ calls[c].built.config.url = <<"/","u","s","e","r","s","/","a","%","2","0","b">>

\* the path of the tool of call c after the substitution of its resolved
\* path parameters, as Build leaves it before its check
PathAfterSubstitution(c) ==
    IF DefinitionOf(c).pathParams = JUndef THEN DefinitionOf(c).path
    ELSE SubstitutePathParams(DefinitionOf(c).path, ResolvedPathParams(c).e)

\* C17: when a {...} token is left in the path after substitution, Build
\* fails with an unresolved-path-parameter error that names the first token
\* left, the call ends as a failure with status 400, and nothing is handed to
\* the transport; a request that is handed to the transport has no {...}
\* token in its path.
C17_LeftoverPlaceholderIsBindingError ==
    \A c \in CallIds :
        /\ \A k \in 1..Len(calls[c].sent) : ~Includes(calls[c].sent[k].url, "{")
        /\ calls[c].built # JUndef /\ MatchPlaceholders(PathAfterSubstitution(c), 1) # << >> =>
              /\ ~calls[c].built.ok
              /\ calls[c].built.error.name = "ParameterBindingError"
              /\ calls[c].built.error.parameter = MatchPlaceholders(PathAfterSubstitution(c), 1)[1]
              /\ StartsWithAt(calls[c].built.error.message,
                              <<"U","n","r","e","s","o","l","v","e","d"," ","p","a","t","h"," ","p","a","r","a","m","e","t","e","r","s",":"," ">>
                                  \o MatchPlaceholders(PathAfterSubstitution(c), 1)[1], 1)
              /\ calls[c].sent = << >>
              /\ calls[c].pc = "done" =>
                    /\ ~calls[c].result.success
                    /\ calls[c].result.statusCode = JNum(400)
                    /\ StartsWithAt(calls[c].result.error.s,
                                    <<"P","a","r","a","m","e","t","e","r"," ","b","i","n","d","i","n","g"," ","e","r","r","o","r",":"," ","U","n","r","e","s","o","l","v","e","d"," ","p","a","t","h"," ","p","a","r","a","m","e","t","e","r","s",":"," ">>, 1)
                    /\ ~calls[c].outcome.ok

\* C17 happens: a call whose optional path parameter was omitted has ended
\* with status 400
C17_Witness ==
    \E c \in CallIds :
        /\ calls[c].pc = "done"
        /\ DefinitionOf(c).pathParams # JUndef
        /\ ~HasOwn(ResolvedPathParams(c), <<"i","d">>)
        /\ calls[c].result.statusCode = JNum(400)
        /\ calls[c].sent = << >>

\* the entries of the queryParams of Search as expressions, in order
SearchParams ==
    << [k |-> <<"a">>, e |-> [ns |-> "args", key |-> <<"a">>, optional |-> FALSE, default |-> NoDefault]],
       [k |-> <<"b">>, e |-> [ns |-> "args", key |-> <<"b">>, optional |-> TRUE, default |-> NoDefault]],
       [k |-> <<"c">>, e |-> [ns |-> "args", key |-> <<"c">>, optional |-> FALSE,
                           default |-> DefaultOf(<<"0">>, JNum(0))]] >>

\* the query mapping the claim gives for Search: the resolved entries, in
\* order, without those whose value is undefined, null, "" or the omit marker
CleanedSearchParams(args) ==
    JObj(SelectSeq(
            [i \in 1..Len(SearchParams) |->
                KV(SearchParams[i].k, ValueByPriority(SearchParams[i].e, args, ProcessEnv))]
            \o <<KV(<<"d">>, JStr(<<"l","i","t">>)), KV(<<"e">>, JStr(<< >>)), KV(<<"f">>, JUndef)>>,
            LAMBDA entry : entry.v \notin {JUndef, JNull, JStr(<< >>), OMIT_MARKER}))

\* C18: the query mapping of a built request has exactly the resolved
\* queryParams entries whose value is none of undefined, null, the empty
\* string and the omit marker, each with its resolved value; 0 and false are
\* kept.
C18_QueryParamsCleaned ==
    \A c \in CallIds :
        Built(c) =>
            /\ DefinitionOf(c).queryParams = Search.queryParams
               => calls[c].built.config.params = CleanedSearchParams(calls[c].args)
            /\ DefinitionOf(c).queryParams = JUndef
               => calls[c].built.config.params = JObj(<< >>)
            /\ \A i \in 1..Len(calls[c].built.config.params.e) :
                  calls[c].built.config.params.e[i].v
                      \notin {JUndef, JNull, JStr(<< >>), OMIT_MARKER}

\* C18 happens: a query was built with a = 0 kept and b = "" dropped
C18_Witness ==
    \E c \in CallIds :
        /\ Built(c)
        /\ DefinitionOf(c).queryParams = Search.queryParams
        /\ ValueIn(calls[c].args, <<"b">>) = JStr(<< >>)
        /\ ValueIn(calls[c].built.config.params, <<"a">>) = JNum(0)
        /\ ~HasOwn(calls[c].built.config.params, <<"b">>)
        /\ ~HasOwn(calls[c].built.config.params, <<"f">>)

\* the body the claim gives for BodyTemplate: its two entries resolved
ResolvedBodyTemplate(args) ==
    JObj(<<KV(<<"n","a","m","e">>, ValueIn(args, <<"u","s","e","r","_","i","d">>)),
           KV(<<"n">>, IF ValueIn(args, <<"n">>) # JUndef THEN ValueIn(args, <<"n">>) ELSE JNum(7))>>)

\* C19: a built request has a body only when the method of the tool is POST,
\* PUT or PATCH and a bodyTemplate is configured, and the body is then the
\* resolved template; for GET and DELETE the body is absent also when a
\* bodyTemplate is configured.  The request handed to the transport is the
\* built one.
C19_BodyOnlyForPostPutPatch ==
    \A c \in CallIds :
        Built(c) =>
            /\ calls[c].built.config.method = MethodLower(DefinitionOf(c).method)
            /\ DefinitionOf(c).method \in {"GET", "DELETE"} => calls[c].built.config.data = JUndef
            /\ DefinitionOf(c).bodyTemplate = JUndef => calls[c].built.config.data = JUndef
            /\ DefinitionOf(c).method \in {"POST", "PUT", "PATCH"}
                  /\ DefinitionOf(c).bodyTemplate = BodyTemplate
               => calls[c].built.config.data = ResolvedBodyTemplate(calls[c].args)
            /\ \A k \in 1..Len(calls[c].sent) : calls[c].sent[k] = calls[c].built.config

\* C19 happens: a DELETE tool with a bodyTemplate sent a request without a
\* body
C19_Witness ==
    \E c \in CallIds :
        /\ Built(c)
        /\ DefinitionOf(c).method = "DELETE"
        /\ DefinitionOf(c).bodyTemplate = BodyTemplate
        /\ Len(calls[c].sent) = 1
        /\ calls[c].sent[1].data = JUndef

\* whether text names an element of the sequence a
IsIndexOf(text, a) ==
    IsDigits(text) /\ NatToString(ParseDigits(text)) = text /\ ParseDigits(text) < Len(a)

RECURSIVE ValueAtPath(_, _)
\* the value of a response body at a path of segments: a segment is a key of
\* a mapping or an index of a sequence; [found, value]
ValueAtPath(body, parts) ==
    IF parts = << >> THEN [found |-> TRUE, value |-> body]
    ELSE IF body.t = "object" /\ HasOwn(body, Head(parts))
    THEN ValueAtPath(MapGet(body, Head(parts)), Tail(parts))
    ELSE IF body.t = "array" /\ IsIndexOf(Head(parts), body.a)
    THEN ValueAtPath(body.a[ParseDigits(Head(parts)) + 1], Tail(parts))
    ELSE [found |-> FALSE, value |-> JUndef]

\* whether call c has ended after a response of the transport
Answered(c) == calls[c].pc = "done" /\ calls[c].response # JUndef

\* C20: when the transport returns a response and the responseTransform path
\* of the tool cannot be followed in its body (a segment is missing at any
\* depth), the call ends as a success whose data is the whole body; when the
\* path can be followed, the data is the value at the path.
C20_TransformOrWholeBody ==
    \A c \in CallIds :
        Answered(c) /\ DefinitionOf(c).responseTransform # JUndef =>
            /\ calls[c].result.success
            /\ calls[c].outcome.ok
            /\ calls[c].result.data =
                  IF ValueAtPath(calls[c].response.data,
                                 SplitOn(DefinitionOf(c).responseTransform.s, ".")).found
                  THEN ValueAtPath(calls[c].response.data,
                                   SplitOn(DefinitionOf(c).responseTransform.s, ".")).value
                  ELSE calls[c].response.data
            /\ calls[c].outcome.data = calls[c].result.data

\* the fallback of C20 for paths without a segment that Object.prototype
\* defines
C20_TransformOrWholeBodyForOwnNames ==
    \A c \in CallIds :
        /\ Answered(c) /\ DefinitionOf(c).responseTransform # JUndef
        /\ \A k \in 1..Len(SplitOn(DefinitionOf(c).responseTransform.s, ".")) :
              SplitOn(DefinitionOf(c).responseTransform.s, ".")[k] \notin ObjectPrototypeKeys
        => /\ calls[c].result.success
           /\ calls[c].outcome.ok
           /\ calls[c].result.data =
                 IF ValueAtPath(calls[c].response.data,
                                SplitOn(DefinitionOf(c).responseTransform.s, ".")).found
                 THEN ValueAtPath(calls[c].response.data,
                                  SplitOn(DefinitionOf(c).responseTransform.s, ".")).value
                 ELSE calls[c].response.data
           /\ calls[c].outcome.data = calls[c].result.data

\* a call with the path data.items.0.id has ended with the whole body, in
\* which data has no items
C20_Witness ==
    \E c \in CallIds :
        /\ Answered(c)
        /\ DefinitionOf(c).responseTransform = JStr(<<"d","a","t","a",".","i","t","e","m","s",".","0",".","i","d">>)
        /\ calls[c].response.data = JObj(<<KV(<<"d","a","t","a">>, JObj(<<KV(<<"i","d">>, JNum(7))>>))>>)
        /\ calls[c].result.success
        /\ calls[c].result.data = calls[c].response.data

\* whether the request of call c has ended in an error of the transport: a
\* timeout, no response, or a response with a status outside 2xx
TransportFailed(c) ==
    calls[c].pc = "done" /\ calls[c].caught # JUndef /\ calls[c].caught.name = "AxiosError"

EqualIgnoringCase(a, b) ==
    /\ Len(a) = Len(b)
    /\ \A k \in 1..Len(a) :
          \/ a[k] = b[k]
          \/ \E n \in 1..Len(LowerLetters) :
                {a[k], b[k]} = {LowerLetters[n], UpperLetters[n]}

MaskedNames == { <<"a","u","t","h","o","r","i","z","a","t","i","o","n">>, <<"x","-","a","p","i","-","k","e","y">>, <<"x","-","a","u","t","h","-","t","o","k","e","n">>, <<"c","o","o","k","i","e">>, <<"s","e","t","-","c","o","o","k","i","e">> }

IsMaskedName(name) == \E masked \in MaskedNames : EqualIgnoringCase(name, masked)

\* the header collections a call has logged so far, in the order of its events:
\* of its request, of its response, of its error response
HeadersOfEvents(c) ==
    (IF calls[c].pc \in {"sent", "done"} /\ calls[c].built # JUndef /\ calls[c].built.ok
        /\ Len(calls[c].built.config.headers.e) > 0
     THEN <<calls[c].built.config.headers>> ELSE << >>)
    \o (IF calls[c].pc = "done" /\ calls[c].response # JUndef
           /\ Len(calls[c].response.headers.e) > 0
        THEN <<calls[c].response.headers>> ELSE << >>)
    \o (IF TransportFailed(c) /\ calls[c].caught.response # JUndef
           /\ Len(calls[c].caught.response.headers.e) > 0
        THEN <<calls[c].caught.response.headers>> ELSE << >>)

\* the header lines in the log of a call
HeaderLines(c) == SelectSeq(calls[c].logs, LAMBDA entry : entry.message = <<" "," "," ","H","e","a","d","e","r","s",":">>)

\* logged shows the headers of original with the sensitive values masked
ShowsMasked(logged, original) ==
    /\ logged.t = "object"
    /\ Len(logged.e) = Len(original.e)
    /\ \A i \in 1..Len(original.e) :
          /\ logged.e[i].k = original.e[i].k
          /\ IF IsMaskedName(original.e[i].k)
             THEN logged.e[i].v = Redacted /\ logged.e[i].v # original.e[i].v
             ELSE logged.e[i].v = original.e[i].v

\* C22: every header line logged for a request, a response or an error
\* response shows the headers of that event with the values of authorization,
\* x-api-key, x-auth-token, cookie and set-cookie (in any spelling of case)
\* replaced by the mask, and every other header with its name and value.
C22_SensitiveHeadersMasked ==
    \A c \in CallIds :
        /\ Len(HeaderLines(c)) = Len(HeadersOfEvents(c))
        /\ \A n \in 1..Len(HeaderLines(c)) :
              ShowsMasked(HeaderLines(c)[n].data, HeadersOfEvents(c)[n])

\* a call that logged a request with a masked Authorization header and an
\* unmasked user-agent, and a response with a masked Set-Cookie header
C22_Witness ==
    \E c \in CallIds :
        /\ calls[c].pc = "done"
        /\ Len(HeaderLines(c)) = 2
        /\ HeaderLines(c)[1].data =
              JObj(<<KV(<<"A","u","t","h","o","r","i","z","a","t","i","o","n">>, Redacted), KV(<<"u","s","e","r","-","a","g","e","n","t">>, JStr(<<"m","c","p">>))>>)
        /\ Get(calls[c].built.config.headers, <<"A","u","t","h","o","r","i","z","a","t","i","o","n">>) = JStr(<<"s","3">>)
        /\ HeaderLines(c)[2].data =
              JObj(<<KV(<<"c","o","n","t","e","n","t","-","t","y","p","e">>, JStr(<<"j","s","o","n">>)), KV(<<"S","e","t","-","C","o","o","k","i","e">>, Redacted)>>)

\* the names of the tools of a table, and the definitions it holds
TableNames(registry) == { registry.e[i].k : i \in 1..Len(registry.e) }
TableDefinitions(registry) == { registry.e[i].v.definition : i \in 1..Len(registry.e) }

\* the tools of a configuration
ToolsOfConfig(config) == { config.tools[i] : i \in 1..Len(config.tools) }

\* C23: after registerToolsFromConfig has returned or thrown, the tool table
\* holds exactly the tools of the new configuration or exactly the tools it
\* held before, never a part of the new tools and never a mixture.
C23_ReloadIsWholesale ==
    reload.done =>
        \/ TableDefinitions(tools) = ToolsOfConfig(reload.config)
        \/ tools = reload.before

\* C23 for the calls that return: the table holds exactly the new tools
C23_ReloadThatReturnsIsWholesale ==
    reload.done /\ ~reload.threw =>
        /\ TableDefinitions(tools) = ToolsOfConfig(reload.config)
        /\ \A name \in TableNames(tools) : MapGet(tools, name).definition.name = name

\* a reload has replaced get_user and add_result by the new get_user alone
C23_Witness ==
    /\ reload.done /\ ~reload.threw
    /\ TableNames(reload.before) = { <<"g","e","t","_","u","s","e","r">>, <<"a","d","d","_","r","e","s","u","l","t">> }
    /\ TableDefinitions(tools) = {GetUserV2}

\* text in which an expression is written
LooksLikeExpression(v) ==
    v.t = "string" /\ \E at \in 1..Len(v.s) : MatchExpressionAt(v.s, at).ok

\* a namespace without the entries whose key is not among keys
OnlyEntries(namespace, keys) ==
    JObj(SelectSeq(namespace.e, LAMBDA entry : entry.k \in keys))

\* the binder that holds only what the templates of expression e name: the
\* key of e in its namespace, and args.limit of {args.limit || 25}
BinderOfNamed(e, args, env) ==
    NewParameterBinder(
        OnlyEntries(args, (IF e.ns = "args" THEN {e.key} ELSE {}) \cup { <<"l","i","m","i","t">> }),
        OnlyEntries(env, IF e.ns = "env" THEN {e.key} ELSE {}))

\* C24: a resolved value is not resolved again.  When the value bound to an
\* expression is text that itself looks like an expression, the output holds
\* that text literally, for a template that is the expression alone and for
\* one with text around it; and the output is the one obtained from the
\* namespace entries the template names alone.
C24_ResolvedValueNotResolvedAgain ==
    \A c \in CallIds :
        Built(c) =>
            \A e \in Expressions \cup {NestExpr} :
                LET template == DefinitionOf(c).bodyTemplate
                    data     == calls[c].built.config.data
                    bound    == ValueIn(IF e.ns = "args" THEN calls[c].args ELSE ProcessEnv, e.key)
                IN  /\ LooksLikeExpression(bound) =>
                          /\ template = JStr(ExprText(e)) => data = bound
                          /\ template = Embedded(e) => data = JStr(<<"l","i","m","i","t","=">> \o bound.s)
                          /\ template = Paired(e) =>
                                /\ data.t = "string"
                                /\ Slice(data.s, 1, Len(bound.s) + 1) = bound.s \o <<"&">>
                    /\ template \in {JStr(ExprText(e)), Embedded(e), Paired(e), MappingAround(e)}
                          => data = resolve(BinderOfNamed(e, calls[c].args, ProcessEnv), template)

\* "limit={args.x}" was resolved to "limit={env.KEY}" for a call whose x is
\* the text {env.KEY}, while the environment has a KEY
C24_Witness ==
    \E c \in CallIds :
        /\ Built(c)
        /\ DefinitionOf(c).bodyTemplate = JStr(<<"l","i","m","i","t","=","{","a","r","g","s",".","x","}">>)
        /\ ValueIn(calls[c].args, <<"x">>) = JStr(<<"{","e","n","v",".","K","E","Y","}">>)
        /\ HasOwn(ProcessEnv, <<"K","E","Y">>)
        /\ calls[c].built.config.data = JStr(<<"l","i","m","i","t","=","{","e","n","v",".","K","E","Y","}">>)

\* "{env.NEST}" was resolved to the text {args.x} it holds, for a call that
\* passes an x
C24_WitnessWhole ==
    \E c \in CallIds :
        /\ Built(c)
        /\ DefinitionOf(c).bodyTemplate = JStr(<<"{","e","n","v",".","N","E","S","T","}">>)
        /\ HasOwn(calls[c].args, <<"x">>)
        /\ calls[c].built.config.data = JStr(<<"{","a","r","g","s",".","x","}">>)

\* call c has entered executeRequest and executeRequest has settled
ExecuteRequestSettled(c) == calls[c].pc = "done" /\ calls[c].built # JUndef

\* C25: executeRequest never throws.  Every failure raised while binding,
\* building, sending or processing gives a result with success = false, a
\* message and a status code: 400 for a binding error, the status of the
\* response or 500 for a transport error, 500 for any other error; a request
\* without a failure gives a result with success = true.
C25_EveryFailureIsAResult ==
    \A c \in CallIds :
        ExecuteRequestSettled(c) =>
            /\ calls[c].result # JUndef
            /\ calls[c].result.success = (calls[c].caught = JUndef)
            /\ calls[c].caught # JUndef =>
                  /\ calls[c].result.error.t = "string" /\ calls[c].result.error.s # << >>
                  /\ calls[c].result.statusCode =
                        CASE calls[c].caught.name = "ParameterBindingError" -> JNum(400)
                          [] calls[c].caught.name = "AxiosError" ->
                                IF calls[c].caught.response # JUndef
                                THEN calls[c].caught.response.status ELSE JNum(500)
                          [] OTHER -> JNum(500)

\* the transport rejected with an error that is not an AxiosError, and the
\* call got the result "Unexpected error: boom" with status 500
C25_Witness ==
    \E c \in CallIds :
        /\ ExecuteRequestSettled(c)
        /\ calls[c].caught = PlainError(<<"b","o","o","m">>)
        /\ ~calls[c].result.success
        /\ calls[c].result.error = JStr(<<"U","n","e","x","p","e","c","t","e","d"," ","e","r","r","o","r",":"," ","b","o","o","m">>)
        /\ calls[c].result.statusCode = JNum(500)

\* a binding error gave the status 400
C25_WitnessBinding ==
    \E c \in CallIds :
        /\ ExecuteRequestSettled(c)
        /\ calls[c].caught # JUndef /\ calls[c].caught.name = "ParameterBindingError"
        /\ calls[c].result.statusCode = JNum(400)

RECURSIVE ContainsMarker(_)
\* whether the omit marker is the value or is in it at some depth
ContainsMarker(v) ==
    \/ v = OMIT_MARKER
    \/ v.t = "array" /\ \E i \in 1..Len(v.a) : ContainsMarker(v.a[i])
    \/ v.t = "object" /\ \E i \in 1..Len(v.e) : ContainsMarker(v.e[i].v)

\* C26: the omit marker never escapes resolution: the headers, the query
\* parameters and the body of a built request do not contain it at any depth,
\* inside sequences and for a template that is one optional expression
\* included, and no request handed to the transport contains it.
C26_OmitMarkerNeverEscapes ==
    \A c \in CallIds :
        Built(c) =>
            /\ ~ContainsMarker(calls[c].built.config.headers)
            /\ ~ContainsMarker(calls[c].built.config.params)
            /\ ~ContainsMarker(calls[c].built.config.data)
            /\ \A k \in 1..Len(calls[c].sent) : ~ContainsMarker(calls[c].sent[k].data)

\* C26 for headers and query parameters, and for a body template that is a
\* mapping without sequences
C26_NoMarkerInMappings ==
    \A c \in CallIds :
        Built(c) =>
            /\ ~ContainsMarker(calls[c].built.config.headers)
            /\ ~ContainsMarker(calls[c].built.config.params)
            /\ DefinitionOf(c).bodyTemplate.t = "object"
               /\ DefinitionOf(c).bodyTemplate \notin SequenceTemplates
               => ~ContainsMarker(calls[c].built.config.data)

\* the optional entries of a mapping inside a mapping, of the headers and of
\* the query parameters were dropped for a call without arguments
C26_Witness ==
    \E c \in CallIds :
        /\ Built(c)
        /\ calls[c].args = JObj(<< >>)
        /\ DefinitionOf(c).bodyTemplate = NestedMappingTemplate
        /\ calls[c].built.config.data = JObj(<<KV(<<"o","u","t","e","r">>, JObj(<<KV(<<"k","e","p","t">>, JNum(1))>>))>>)
        /\ calls[c].built.config.headers = JObj(<<KV(<<"a","c","c","e","p","t">>, JStr(<<"j","s","o","n">>))>>)
        /\ calls[c].built.config.params = JObj(<<KV(<<"k">>, JStr(<<"s","3">>))>>)

\* C27: a call that has completed Lookup uses the definition it looked up
\* for all its later stages, whatever registerToolsFromConfig does to the
\* table meanwhile: the context of the call never changes, the request it
\* sent is the one built from that definition, the response is projected with
\* that definition, and the call fails only when the transport fails.
C27_CallKeepsLookedUpDefinition ==
    [][\A c \in CallIds :
          /\ calls[c].context = JUndef /\ calls'[c].context # JUndef
                => calls'[c].context.tool = MapGet(tools, calls'[c].name).definition
          /\ calls[c].context # JUndef => calls'[c].context = calls[c].context
          /\ calls[c].pc = "sent" /\ calls'[c].pc = "done" =>
                /\ \A k \in 1..Len(calls'[c].sent) :
                      calls'[c].sent[k] =
                          buildRequestConfig(calls[c].context.tool,
                              NewParameterBinder(calls[c].args, ProcessEnv)).config
                /\ calls'[c].response # JUndef
                      => calls'[c].result = processResponse(calls'[c].response, calls[c].context.tool)
                /\ calls'[c].result.success = (calls'[c].caught = JUndef)]_vars

\* a call of get_user was suspended at the transport when a reload replaced
\* get_user by a definition with another responseTransform, and finished
\* with the value of its own transform data.id
C27_Witness ==
    \E c \in CallIds :
        /\ calls[c].pc = "done"
        /\ reload.done /\ c \in reload.suspended
        /\ calls[c].context.tool = GetUser
        /\ HasOwn(tools, <<"g","e","t","_","u","s","e","r">>) /\ MapGet(tools, <<"g","e","t","_","u","s","e","r">>).definition = GetUserV2
        /\ calls[c].response # JUndef
        /\ calls[c].response.data = JObj(<<KV(<<"d","a","t","a">>, JObj(<<KV(<<"i","d">>, JNum(7))>>))>>)
        /\ calls[c].result.success
        /\ calls[c].result.data = JNum(7)

\* the same when the reload removed the tool
C27_WitnessRemoved ==
    \E c \in CallIds :
        /\ calls[c].pc = "done"
        /\ reload.done /\ c \in reload.suspended
        /\ ~HasOwn(tools, calls[c].name)
        /\ calls[c].result.success

\* a step in which start() call s is issued, and one in which stop() call p is
StartIssued(s) == lifecycle.starts[s] = "idle" /\ lifecycle'.starts[s] # "idle"
StopIssued(p) == lifecycle.stops[p].pc = "idle" /\ lifecycle'.stops[p].pc # "idle"

\* a step in which a connect, or a close, completes with or without success
ConnectCompleted(s, ok) ==
    /\ lifecycle.starts[s] = "connecting"
    /\ lifecycle'.starts[s] = IF ok THEN "returned" ELSE "threw"
CloseCompleted(p, ok) ==
    /\ lifecycle.stops[p].pc = "closing"
    /\ lifecycle'.stops[p].pc = IF ok THEN "returned" ELSE "threw"

\* C28: isRunning is true only if a connect has completed successfully and no
\* close has completed successfully since; it becomes true only in the step
\* in which a connect succeeds and false only in the step in which a close
\* succeeds; a failed connect or close leaves it as it is; start() on a
\* running server calls no connect and stop() on a server that is not running
\* calls no close.
C28_IsRunningFollowsTransport ==
    /\ [](lifecycle.isRunning => lifecycle.lastSettled = "connect")
    /\ [][/\ lifecycle'.isRunning /\ ~lifecycle.isRunning
                => \E s \in StartIds : ConnectCompleted(s, TRUE)
          /\ ~lifecycle'.isRunning /\ lifecycle.isRunning
                => \E p \in StopIds : CloseCompleted(p, TRUE)
          /\ (\/ \E s \in StartIds : ConnectCompleted(s, FALSE)
              \/ \E p \in StopIds : CloseCompleted(p, FALSE))
                => lifecycle'.isRunning = lifecycle.isRunning
          /\ \A s \in StartIds :
                StartIssued(s) /\ lifecycle.isRunning => lifecycle'.starts[s] = "returned"
          /\ \A p \in StopIds :
                StopIssued(p) /\ ~lifecycle.isRunning => lifecycle'.stops[p].pc = "returned"]_vars

\* the server runs again after a start, a stop and a second start, one
\* connect having failed on the way
C28_Witness ==
    /\ lifecycle.isRunning
    /\ lifecycle.lastSettled = "connect"
    /\ \E p \in StopIds : lifecycle.stops[p].pc = "returned" /\ lifecycle.stops[p].issued # {}
    /\ \E s \in StartIds : lifecycle.starts[s] = "threw"

\* C29: for any interleaving of start() calls the underlying server is
\* connected at most once while it has not been stopped: at most one start()
\* awaits a connect, and at most one transport is connected.
C29_ConnectedAtMostOnce ==
    /\ Cardinality({s \in StartIds : lifecycle.starts[s] = "connecting"}) <= 1
    /\ lifecycle.transports <= 1

\* every start() and stop() call that was issued has finished
AllFinished ==
    /\ \A s \in StartIds : lifecycle.starts[s] # "connecting"
    /\ \A p \in StopIds : lifecycle.stops[p].pc # "closing"

\* C30: a stop request that arrives while start() awaits the connect is not
\* lost: once the calls have finished, and no start() was issued after the
\* stop request, the server is not running.
C30_StopDuringStartNotLost ==
    \A p \in StopIds :
        /\ lifecycle.stops[p].pc # "idle"
        /\ lifecycle.stops[p].awaiting # {}
        /\ AllFinished
        /\ \A s \in StartIds : lifecycle.starts[s] # "idle" => s \in lifecycle.stops[p].issued
        => ~lifecycle.isRunning

\* a stop request that arrives after start() has finished stops the server
C30_StopAfterStartStops ==
    \A p \in StopIds :
        /\ lifecycle.stops[p].pc = "returned"
        /\ lifecycle.stops[p].issued # {} /\ lifecycle.stops[p].awaiting = {}
        /\ AllFinished
        /\ \A q \in StopIds : lifecycle.stops[q].pc # "threw"
        /\ \A s \in StartIds : lifecycle.starts[s] # "idle" => s \in lifecycle.stops[p].issued
        => ~lifecycle.isRunning
====
